---- MODULE Spec2Model ----
(***************************************************************************)
(* Model of the xinfadi price crawler (src/xinfadi_crawler.py):            *)
(* XinfadiCrawler.fetch_page / fetch_all_data (the paginated fetcher),     *)
(* parse_data (the record normalizer) and crawl_and_save (the pipeline     *)
(* fetch -> normalize -> category filter -> local files -> upload), and of  *)
(* the token manager of the Feishu client (src/feishu_sync.py, FeishuSync  *)
(* lines 32-329): the delegated (user) and service (tenant) tokens, their  *)
(* renewal, the persisted configuration file and the mode flag; of its     *)
(* upload pipeline (lines 330-721): unique names, create_spreadsheet,      *)
(* get_sheets, write_data with its chunks and column letters, and          *)
(* upload_dataframe; and of start_auth_server (lines 809-913).             *)
(*                                                                         *)
(* JSON / Python values are tagged records [t, s, n]; a string is the      *)
(* tuple of its characters, so that parsing a price is a computation on    *)
(* characters.  Numbers are fixed-point, in hundredths.                    *)
(***************************************************************************)
EXTENDS Integers, Sequences, FiniteSets, TLC

\* ------------------------------------------------------------------ bounds
\* Largest count/total the remote reports in a page response.
MaxTotal == 2
\* Largest number of records in one page response.
MaxPageLen == 2
\* Largest max_pages argument tried.
MaxCap == 1
\* Longest price string tried by the normalizer specification.
MaxStrLen == 2
\* Longest raw_data sequence handed to parse_data directly.
MaxRaw == 2
\* Latest instant of the clock, in seconds after the start.
MaxClock == 1
\* Largest number of tokens the remote grants.
MaxIssued == 2
\* Largest number of names of the form base_(n) already taken in a set.
MaxTaken == 10
\* Largest column count converted to letters.
MaxCol == 730
\* Largest number of grid rows handed to write_data directly.
MaxRows == 3
\* Largest batch_size argument tried below the default.
MaxBatch == 2
\* Largest number of spreadsheets the remote creates.
MaxCreated == 2
\* The row count of the large table uploaded (the example of 10,000 rows).
ManyRows == 10000

\* ------------------------------------------------------------ Python values
Absent == [t |-> "absent", s |-> <<>>, n |-> 0]
Null == [t |-> "null", s |-> <<>>, n |-> 0]
NaN == [t |-> "nan", s |-> <<>>, n |-> 0]
Str(chars) == [t |-> "str", s |-> chars, n |-> 0]
Num(k) == [t |-> "num", s |-> <<>>, n |-> k]
EmptyStr == Str(<<>>)

\* Optional arguments: None, or an int / a string.
None == [some |-> FALSE, v |-> Null]
Some(x) == [some |-> TRUE, v |-> x]

\* Python truthiness of a value (`if x`, `x or y`).
Truthy(v) ==
    CASE v.t = "str" -> v.s # <<>>
      [] v.t = "num" -> v.n # 0
      [] OTHER -> FALSE

\* dict.get(key, default) on a raw record; a record maps every key of Keys to
\* a value, Absent standing for a key the dict does not hold.
Get(item, key, default) == IF item[key] = Absent THEN default ELSE item[key]

\* x or y
PyOr(x, y) == IF Truthy(x) THEN x ELSE y

Keys == {"prodCat", "prodPcat", "prodName", "lowPrice", "avgPrice",
         "highPrice", "specInfo", "place", "unitInfo", "pubDate"}

\* Category names (stand-ins for the names of CATEGORY_MAP; "Veg" differs from
\* "veg" by case only).
veg == <<"v", "e", "g">>
Veg == <<"V", "e", "g">>
fruit == <<"f", "r">>

MkItem(cat, pcat, name, low, avg, high, rest) ==
    [k \in Keys |->
        CASE k = "prodCat" -> cat
          [] k = "prodPcat" -> pcat
          [] k = "prodName" -> name
          [] k = "lowPrice" -> low
          [] k = "avgPrice" -> avg
          [] k = "highPrice" -> high
          [] OTHER -> rest]

\* The records the remote serves in the pipeline specification: one whose
\* category is found only through the prodPcat fallback, and one whose prodCat
\* differs from "veg" by case.
CoreRecords ==
    { MkItem(Absent, Str(veg), Str(<<"c">>), Str(<<"1", ".", "2">>),
             Str(<<"b">>), Num(200), Str(<<"x">>)),
      MkItem(Str(Veg), Str(fruit), Absent, Num(150), Absent, Null, Absent) }

RECURSIVE SeqsUpTo(_, _)
SeqsUpTo(S, n) ==
    IF n = 0 THEN {<<>>}
    ELSE LET shorter == SeqsUpTo(S, n - 1)
         IN shorter \cup {Append(q, e) : q \in {p \in shorter : Len(p) = n - 1}, e \in S}

\* ------------------------------------------------------------------- state
VARIABLES
    pc,            \* position of the call in progress
    caller,        \* "direct": fetch_all_data called on its own; "crawl": from crawl_and_save
    max_pages,     \* fetch_all_data argument
    category,      \* argument
    page,          \* fetch_all_data local
    all_data,      \* fetch_all_data local
    data_list,     \* fetch_all_data local: the list of the page just returned
    total,         \* fetch_all_data local: the total of the page just returned
    log,           \* history: page requests and delay suspensions, in order
    responses,     \* history: what each page request returned
    served,        \* history: the records the remote returned, concatenated
    min_total,     \* history: the smallest total reported with a non-empty page
    raw_data,      \* what fetch_all_data returned / parse_data's argument
    df,            \* crawl_and_save local: the table
    parsed,        \* history: the table as parse_data returned it
    output_format, \* crawl_and_save argument
    sync_to_feishu,\* crawl_and_save argument
    csv_file,      \* the table written by save_to_csv (None: not written)
    xlsx_file,     \* the table written by save_to_excel (None: not written)
    uploaded,      \* the table handed to upload_dataframe (None: not handed)
    filepath,      \* crawl_and_save local and return value
    now,           \* datetime.now().timestamp(), in seconds after the start
    self,          \* the FeishuSync instance: its token fields and mode flag
    config,        \* the configuration file self.config_file
    issued,        \* history: how many tokens the remote has granted
    op,            \* history: the operation that ran last
    ret,           \* history: what it returned
    trace,         \* history: the requests it sent and the methods it called
    mode_op,       \* history: the last mode-selecting operation that returned True
    pre,           \* history: the instance and the file as the last operation found them
    naming,        \* which of get_unique_filename / get_unique_sheet_title ran
    base_name,     \* its argument (base_title for sheets)
    existing_names,\* its local: the names (titles) the listing returned
    unique_name,   \* its return value
    cols,          \* write_data local: the widest row of the grid
    end_col,       \* write_data local: col_to_letter(cols)
    stage,         \* position of the upload_dataframe / write_data call in progress
    call,          \* the entry point called and its arguments
    file_title,    \* upload_dataframe local: the title after renaming
    spreadsheet_token, \* upload_dataframe local / write_data argument (0: None)
    sheet_id,      \* upload_dataframe local / write_data argument (0: None)
    total_rows,    \* write_data local: len(data)
    batch_idx,     \* write_data local: the chunk to write next
    remote,        \* the remote store: the names in the folder and every sheet's rows
    sent,          \* history: the requests of this call, each with its bearer and answer
    returned,      \* what the call returned
    auth_pc,       \* position of start_auth_server
    port,          \* who holds localhost:9000
    auth_code,     \* start_auth_server local auth_code[0]
    server_done,   \* start_auth_server local server_done[0]
    polls,         \* how many periods of server.timeout have passed since start_time
    events,        \* history: what start_auth_server did, in order
    auth_ret       \* what start_auth_server returned

vars == <<pc, caller, max_pages, category, page, all_data, data_list, total,
          log, responses, served, min_total, raw_data, df, parsed, output_format,
          sync_to_feishu, csv_file, xlsx_file, uploaded, filepath,
          now, self, config, issued, op, ret, trace, mode_op, pre,
          naming, base_name, existing_names, unique_name, cols, end_col,
          stage, call, file_title, spreadsheet_token, sheet_id, total_rows,
          batch_idx, remote, sent, returned,
          auth_pc, port, auth_code, server_done, polls, events, auth_ret>>

fetchVars == <<page, all_data, data_list, total, log, responses, served, min_total>>
crawlVars == <<df, parsed, csv_file, xlsx_file, uploaded, filepath>>
argVars == <<caller, max_pages, category, output_format, sync_to_feishu>>
tokenVars == <<now, self, config, issued, op, ret, trace, mode_op, pre>>
crawlerVars == <<pc, raw_data, fetchVars, argVars, crawlVars>>
nameVars == <<naming, base_name, existing_names, unique_name>>
columnVars == <<cols, end_col>>
uploadVars == <<stage, call, file_title, spreadsheet_token, sheet_id, total_rows,
                batch_idx, remote, sent, returned>>
sheetVars == <<nameVars, columnVars, uploadVars>>
authVars == <<auth_pc, port, auth_code, server_done, polls, events, auth_ret>>

\* ------------------------------------------------- FeishuSync token fields
\* A token is an opaque string to the client, which only copies it and tests
\* its truthiness.  The model writes it as what the remote knows about it:
\* its kind, the instant it was granted and the absolute expiry the remote
\* reported with it.  None and "" are both NoToken.
NoToken == [kind |-> "none", at |-> 0, expiry |-> 0]
TruthyToken(x) == x # NoToken

\* __init__, lines 54-59.
NewSelf ==
    [user_access_token |-> NoToken, refresh_token |-> NoToken,
     tenant_access_token |-> NoToken, token_expires_at |-> 0,
     use_tenant_token |-> FALSE]

\* A configuration file that holds none of the client's keys yet, or no file
\* at all.  A key the file lacks reads as its .get default; the keys no
\* method of the client sets (app_id, app_secret, folder_token, and the
\* instructions of the template) are "absent" when the file lacks them.  The
\* updated_at text of lines 94 and 316, which every rewrite sets and nothing
\* reads, is not part of the record.
NewConfig(exists) ==
    [exists |-> exists, user_access_token |-> NoToken, refresh_token |-> NoToken,
     token_expires_at |-> 0, use_tenant_token |-> FALSE,
     app_id |-> "absent", app_secret |-> "absent", folder_token |-> "absent",
     instructions |-> "absent"]

\* The configuration file as create_config_template writes it (lines
\* 726-746) and the user fills it in.
TemplateConfig ==
    [NewConfig(TRUE) EXCEPT !.app_id = "app_id",
                            !.app_secret = "app_secret",
                            !.folder_token = "folder_token",
                            !.instructions = "instructions"]

\* Return values: a bool, or a token (None is NoToken).
RetBool(b) == [b |-> b, tok |-> NoToken]
RetToken(k) == [b |-> TruthyToken(k), tok |-> k]

\* The instance and the file, as an operation finds them.
Snapshot == [self |-> self, config |-> config]

\* A freshly constructed client that has called nothing yet.
ClientIdle ==
    /\ now = 0
    /\ self = NewSelf
    /\ config = NewConfig(TRUE)
    /\ issued = 0
    /\ op = "__init__"
    /\ ret = RetBool(TRUE)
    /\ trace = <<>>
    /\ mode_op = "none"
    /\ pre = Snapshot

\* No call of the upload pipeline is in progress and the remote folder is empty.
NoCall ==
    [fn |-> "none", title |-> <<>>, auto_rename |-> FALSE, rows |-> 0, width |-> 0,
     start_cell |-> <<>>, batch_size |-> 0, token |-> 0]
NotReturned == [done |-> FALSE, raised |-> FALSE, b |-> FALSE, tok |-> 0]
EmptyRemote == [names |-> {}, sheets |-> <<>>]
NamesIdle ==
    /\ naming = "none"
    /\ base_name = <<>>
    /\ existing_names = {}
    /\ unique_name = <<>>
ColumnsIdle ==
    /\ cols = 0
    /\ end_col = <<>>
UploadIdle ==
    /\ stage = "idle"
    /\ call = NoCall
    /\ file_title = <<>>
    /\ spreadsheet_token = 0
    /\ sheet_id = 0
    /\ total_rows = 0
    /\ batch_idx = 0
    /\ remote = EmptyRemote
    /\ sent = <<>>
    /\ returned = NotReturned
SheetsIdle == NamesIdle /\ ColumnsIdle /\ UploadIdle

\* start_auth_server has not been called and nothing holds the port.
AuthIdle ==
    /\ auth_pc = "idle"
    /\ port = "free"
    /\ auth_code = "None"
    /\ server_done = FALSE
    /\ polls = 0
    /\ events = <<>>
    /\ auth_ret = "pending"

\* ------------------------------------------------------------ fetch_page
CountVals == {Absent} \cup {Num(k) : k \in 0..MaxTotal}
PageLists == SeqsUpTo(CoreRecords, MaxPageLen)

\* The JSON bodies the remote can answer with: {list, count?, total?}.
RemoteBodies == [list : PageLists, count : CountVals, total : CountVals]

\* What fetch_page returns from its two except clauses.
FailedResult == [list |-> <<>>, count |-> Absent, total |-> Num(0)]

RequestEvent(p) == [ev |-> "request", page |-> p]
SleepEvent == [ev |-> "sleep", page |-> 0]

\* Python truthiness of an optional argument.
TruthyOpt(o) == o.some /\ Truthy(o.v)

\* result.get("count", 0) or result.get("total", 0)
ResultTotal(result) ==
    PyOr(IF result.count = Absent THEN Num(0) ELSE result.count,
         IF result.total = Absent THEN Num(0) ELSE result.total)

\* ---------------------------------------------------------- fetch_all_data
\* Mutant of HandleResult: the `if not data_list: break` of lines 178-179 is
\* missing.
HandleResultNoEmptyBreak(result) ==
    /\ data_list' = result.list
    /\ total' = ResultTotal(result)
    /\ all_data' = all_data \o result.list
    /\ IF Len(all_data') >= total'.n /\ result.list # <<>>
       THEN pc' = "return" /\ page' = page
       ELSE pc' = "sleep" /\ page' = page + 1

\* Mutant of HandleResult: line 181 assigns the page instead of extending.
HandleResultOverwrite(result) ==
    /\ data_list' = result.list
    /\ total' = ResultTotal(result)
    /\ IF result.list = <<>>
       THEN pc' = "return" /\ all_data' = all_data /\ page' = page
       ELSE /\ all_data' = result.list
            /\ IF Len(all_data \o result.list) >= total'.n
               THEN pc' = "return" /\ page' = page
               ELSE pc' = "sleep" /\ page' = page + 1

\* Lines 175-189: the body of the loop after fetch_page has returned `result`.
HandleResult(result) ==
    /\ data_list' = result.list
    /\ total' = ResultTotal(result)
    /\ IF result.list = <<>>
       THEN pc' = "return" /\ all_data' = all_data /\ page' = page
       ELSE /\ all_data' = all_data \o result.list
            /\ IF Len(all_data') >= total'.n
               THEN pc' = "return" /\ page' = page
               ELSE pc' = "sleep" /\ page' = page + 1

MaxPagesArgs == {None} \cup {Some(Num(k)) : k \in 0..MaxCap}
CategoryArgs == {None, Some(EmptyStr), Some(Str(veg))}
OutputFormats == {"csv", "xlsx", "both", "json"}

\* fetch_all_data called on its own, lines 152-153.
CallFetchAllData ==
    /\ pc = "idle"
    /\ \E mp \in MaxPagesArgs :
          /\ max_pages' = mp
          /\ caller' = "direct"
    /\ pc' = "loop"
    /\ page' = 1
    /\ all_data' = <<>>
    /\ UNCHANGED <<category, data_list, total, log, responses, served, min_total,
                   raw_data, output_format, sync_to_feishu>>
    /\ UNCHANGED crawlVars
    /\ UNCHANGED <<tokenVars, sheetVars, authVars>>

\* Lines 161-164: the top of the loop.
MaxPagesCheck ==
    /\ pc = "loop"
    /\ IF TruthyOpt(max_pages) /\ page > max_pages.v.n
       THEN pc' = "return"
       ELSE pc' = "fetch"
    /\ UNCHANGED <<fetchVars, argVars, crawlVars, raw_data>>
    /\ UNCHANGED <<tokenVars, sheetVars, authVars>>

\* Lines 166-189 with fetch_page (117-119) returning the remote's JSON body.
FetchPageOk ==
    /\ pc = "fetch"
    /\ \E body \in RemoteBodies :
          /\ HandleResult(body)
          /\ responses' = Append(responses, [ok |-> TRUE, n |-> Len(body.list)])
          /\ served' = served \o body.list
          /\ min_total' = IF body.list # <<>> /\ ResultTotal(body).n < min_total
                          THEN ResultTotal(body).n ELSE min_total
    /\ log' = Append(log, RequestEvent(page))
    /\ UNCHANGED <<argVars, crawlVars, raw_data>>
    /\ UNCHANGED <<tokenVars, sheetVars, authVars>>

\* Mutant of FetchPageExcept: the exception is not caught and leaves
\* fetch_all_data.
FetchPageExceptRaises ==
    /\ pc' = "raised"
    /\ UNCHANGED <<page, all_data, data_list, total>>

\* fetch_page's except clauses, lines 120-125: the loop body runs on
\* {"list": [], "total": 0}.
FetchPageExcept == HandleResult(FailedResult)

\* Lines 166-189 with the request failing in transport
\* (requests.exceptions.RequestException, lines 120-122).
FetchPageRequestException ==
    /\ pc = "fetch"
    /\ FetchPageExcept
    /\ responses' = Append(responses, [ok |-> FALSE, n |-> 0])
    /\ log' = Append(log, RequestEvent(page))
    /\ UNCHANGED <<served, min_total, argVars, crawlVars, raw_data>>
    /\ UNCHANGED <<tokenVars, sheetVars, authVars>>

\* Lines 166-189 with a body that is not JSON (ValueError, lines 123-125).
FetchPageValueError ==
    /\ pc = "fetch"
    /\ FetchPageExcept
    /\ responses' = Append(responses, [ok |-> FALSE, n |-> 0])
    /\ log' = Append(log, RequestEvent(page))
    /\ UNCHANGED <<served, min_total, argVars, crawlVars, raw_data>>
    /\ UNCHANGED <<tokenVars, sheetVars, authVars>>

\* Line 189: time.sleep(delay), then back to the top of the loop.
Sleep ==
    /\ pc = "sleep"
    /\ log' = Append(log, SleepEvent)
    /\ pc' = "loop"
    /\ UNCHANGED <<page, all_data, data_list, total, responses, served, min_total,
                   argVars, crawlVars, raw_data>>
    /\ UNCHANGED <<tokenVars, sheetVars, authVars>>

\* Lines 191-192: return all_data.
ReturnAllData ==
    /\ pc = "return"
    /\ raw_data' = all_data
    /\ pc' = IF caller = "direct" THEN "done" ELSE "parse"
    /\ UNCHANGED <<fetchVars, argVars, crawlVars>>
    /\ UNCHANGED <<tokenVars, sheetVars, authVars>>

\* -------------------------------------------------------------- parse_data
Digits == {"0", "1", "2", "3", "4", "5", "6", "7", "8", "9"}

DigitVal(c) ==
    CASE c = "0" -> 0 [] c = "1" -> 1 [] c = "2" -> 2 [] c = "3" -> 3
      [] c = "4" -> 4 [] c = "5" -> 5 [] c = "6" -> 6 [] c = "7" -> 7
      [] c = "8" -> 8 [] c = "9" -> 9

\* Scan of a decimal literal, left to right: st = [ok, dot, digits, int, frac, fd]
\* (still well-formed, a point was read, digits read so far, integer part,
\* fraction digits as an integer, number of fraction digits).
RECURSIVE ScanDecimal(_, _, _)
ScanDecimal(chars, i, st) ==
    IF i > Len(chars) \/ ~st.ok THEN st
    ELSE LET c == chars[i] IN
         IF c \in Digits
         THEN ScanDecimal(chars, i + 1,
                IF st.dot
                THEN [st EXCEPT !.frac = st.frac * 10 + DigitVal(c),
                                !.fd = st.fd + 1, !.digits = st.digits + 1]
                ELSE [st EXCEPT !.int = st.int * 10 + DigitVal(c),
                                !.digits = st.digits + 1])
         ELSE IF c = "." /\ ~st.dot
         THEN ScanDecimal(chars, i + 1, [st EXCEPT !.dot = TRUE])
         ELSE [st EXCEPT !.ok = FALSE]

RECURSIVE Pow10(_)
Pow10(k) == IF k = 0 THEN 1 ELSE 10 * Pow10(k - 1)

\* The value of a scanned literal in hundredths (exact up to two fraction
\* digits, which covers every string of the bounded inputs).
Hundredths(st) ==
    st.int * 100 + (IF st.fd <= 2 THEN st.frac * Pow10(2 - st.fd)
                    ELSE st.frac \div Pow10(st.fd - 2))

\* Mutant of ToNumeric: a cell that is no number becomes 0.
ToNumericZeroOnFailure(v) ==
    IF v.t = "num" THEN v
    ELSE IF v.t = "str"
    THEN LET st == ScanDecimal(v.s, 1,
                     [ok |-> TRUE, dot |-> FALSE, digits |-> 0, int |-> 0,
                      frac |-> 0, fd |-> 0])
         IN IF st.ok /\ st.digits > 0 THEN Num(Hundredths(st)) ELSE Num(0)
    ELSE Num(0)

\* pd.to_numeric(..., errors="coerce") on one cell, line 228.
ToNumeric(v) ==
    IF v.t = "num" THEN v
    ELSE IF v.t = "str"
    THEN LET st == ScanDecimal(v.s, 1,
                     [ok |-> TRUE, dot |-> FALSE, digits |-> 0, int |-> 0,
                      frac |-> 0, fd |-> 0])
         IN IF st.ok /\ st.digits > 0 THEN Num(Hundredths(st)) ELSE NaN
    ELSE NaN

\* Mutant of PrimaryCategory: the fallback is taken on a missing key only.
PrimaryCategoryByKey(item) ==
    IF item["prodCat"] # Absent THEN item["prodCat"]
    ELSE Get(item, "prodPcat", EmptyStr)

\* Line 210: item.get("prodCat", "") or item.get("prodPcat", "")
PrimaryCategory(item) ==
    PyOr(Get(item, "prodCat", EmptyStr), Get(item, "prodPcat", EmptyStr))

\* Line 213: item.get("prodPcat", "") if item.get("prodPcat") else ""
SecondaryCategory(item) ==
    IF Truthy(Get(item, "prodPcat", Null))
    THEN Get(item, "prodPcat", EmptyStr) ELSE EmptyStr

\* Lines 210-222 and 227-228: the row built for one raw record, prices coerced.
NormalizeItem(item) ==
    [cat1 |-> PrimaryCategory(item),
     cat2 |-> SecondaryCategory(item),
     name |-> Get(item, "prodName", EmptyStr),
     low |-> ToNumeric(Get(item, "lowPrice", EmptyStr)),
     avg |-> ToNumeric(Get(item, "avgPrice", EmptyStr)),
     high |-> ToNumeric(Get(item, "highPrice", EmptyStr)),
     spec |-> Get(item, "specInfo", EmptyStr),
     place |-> Get(item, "place", EmptyStr),
     unit |-> Get(item, "unitInfo", EmptyStr),
     pubDate |-> Get(item, "pubDate", EmptyStr)]

\* Mutant of parse_data: rows with a price that is no number are dropped.
parse_data_dropna(raw) ==
    LET rows == [i \in 1..Len(raw) |-> NormalizeItem(raw[i])]
        Keep(row) == row.low # NaN /\ row.avg # NaN /\ row.high # NaN
    IN SelectSeq(rows, Keep)

\* parse_data, lines 204-230.

parse_data(raw) ==
    IF raw = <<>> THEN <<>>
    ELSE [i \in 1..Len(raw) |-> NormalizeItem(raw[i])]

\* ---------------------------------------------------------- crawl_and_save
NotWritten == [written |-> FALSE, rows |-> <<>>]
Written(table) == [written |-> TRUE, rows |-> table]
\* What _sync_to_feishu did: whether upload_dataframe was called, the table
\* handed to it, and how the sync ended.
NotUploaded == [written |-> FALSE, rows |-> <<>>, result |-> "not_called"]
Uploaded(table, result) == [written |-> TRUE, rows |-> table, result |-> result]

\* crawl_and_save called, lines 327-331: fetch_all_data without max_pages.
CallCrawlAndSave ==
    /\ pc = "idle"
    /\ \E cat \in CategoryArgs, fmt \in OutputFormats, sync \in BOOLEAN :
          /\ category' = cat
          /\ output_format' = fmt
          /\ sync_to_feishu' = sync
    /\ caller' = "crawl"
    /\ max_pages' = None
    /\ pc' = "loop"
    /\ page' = 1
    /\ all_data' = <<>>
    /\ UNCHANGED <<data_list, total, log, responses, served, min_total, raw_data>>
    /\ UNCHANGED crawlVars
    /\ UNCHANGED <<tokenVars, sheetVars, authVars>>

\* Line 333 (and parse_data called on its own).
ParseData ==
    /\ pc = "parse"
    /\ df' = parse_data(raw_data)
    /\ parsed' = df'
    /\ pc' = IF caller = "crawl" THEN "filter" ELSE "done"
    /\ UNCHANGED <<fetchVars, argVars, raw_data, csv_file, xlsx_file, uploaded,
                   filepath>>
    /\ UNCHANGED <<tokenVars, sheetVars, authVars>>

\* Mutant of FilterByCategory: the filter reads the raw prodCat field.
FilterOnRaw(table, raw, cat) ==
    IF TruthyOpt(cat) /\ table # <<>>
    THEN LET idx == {i \in 1..Len(table) : raw[i]["prodCat"] = cat.v}
             RECURSIVE Pick(_)
             Pick(i) == IF i > Len(table) THEN <<>>
                        ELSE (IF i \in idx THEN <<table[i]>> ELSE <<>>) \o Pick(i + 1)
         IN Pick(1)
    ELSE table

\* Lines 336-338: df[df[COLUMNS[0]] == category], on a non-empty table when a
\* category is given.
FilterByCategory(table, raw, cat) ==
    IF TruthyOpt(cat) /\ table # <<>>
    THEN LET Match(row) == row.cat1 = cat.v
         IN SelectSeq(table, Match)
    ELSE table

CategoryFilter ==
    /\ pc = "filter"
    /\ df' = FilterByCategory(df, raw_data, category)
    /\ pc' = "save_csv"
    /\ UNCHANGED <<fetchVars, argVars, raw_data, parsed, csv_file, xlsx_file,
                   uploaded, filepath>>
    /\ UNCHANGED <<tokenVars, sheetVars, authVars>>

\* Lines 342-346.
SaveCsv ==
    /\ pc = "save_csv"
    /\ IF output_format \in {"csv", "both"}
       THEN csv_file' = Written(df) /\ filepath' = "csv"
       ELSE csv_file' = csv_file /\ filepath' = "None"
    /\ pc' = "save_xlsx"
    /\ UNCHANGED <<fetchVars, argVars, raw_data, df, parsed, xlsx_file, uploaded>>
    /\ UNCHANGED <<tokenVars, sheetVars, authVars>>

\* Lines 348-351.
SaveExcel ==
    /\ pc = "save_xlsx"
    /\ IF output_format \in {"xlsx", "both"}
       THEN /\ xlsx_file' = Written(df)
            /\ filepath' = IF filepath = "None" THEN "xlsx" ELSE filepath
       ELSE xlsx_file' = xlsx_file /\ filepath' = filepath
    /\ pc' = "sync"
    /\ UNCHANGED <<fetchVars, argVars, raw_data, df, parsed, csv_file, uploaded>>
    /\ UNCHANGED <<tokenVars, sheetVars, authVars>>

\* Line 354 with sync_to_feishu false.
NoSync ==
    /\ pc = "sync"
    /\ ~sync_to_feishu
    /\ pc' = "return_path"
    /\ UNCHANGED <<fetchVars, argVars, crawlVars, raw_data>>
    /\ UNCHANGED <<tokenVars, sheetVars, authVars>>

\* _sync_to_feishu without a client: the module is missing (lines 373-376)
\* or load_sync_client returns None (lines 381-385); the method returns.
SyncWithoutClient ==
    /\ pc = "sync"
    /\ sync_to_feishu
    /\ \E why \in {"module_missing", "no_client"} :
          uploaded' = [NotUploaded EXCEPT !.result = why]
    /\ pc' = "return_path"
    /\ UNCHANGED <<fetchVars, argVars, raw_data, df, parsed, csv_file, xlsx_file,
                   filepath>>
    /\ UNCHANGED <<tokenVars, sheetVars, authVars>>

\* Mutant of SyncUpload: the except of lines 405-406 is missing and an
\* exception inside the sync leaves crawl_and_save before its return.
SyncUploadRaises ==
    /\ pc = "sync"
    /\ sync_to_feishu
    /\ \E result \in {"token", "none", "exception"} :
          /\ uploaded' = Uploaded(df, result)
          /\ pc' = IF result = "exception" THEN "raised" ELSE "return_path"
          /\ filepath' = IF result = "exception" THEN "None" ELSE filepath
    /\ UNCHANGED <<fetchVars, argVars, raw_data, df, parsed, csv_file, xlsx_file>>
    /\ UNCHANGED <<tokenVars, sheetVars, authVars>>

\* _sync_to_feishu, lines 379-406: upload_dataframe(df, ...) is called (line
\* 398) and returns a spreadsheet token, returns None, or raises; the result
\* is printed (lines 400-403) or the exception is caught and printed (lines
\* 405-406), and crawl_and_save goes on to its return.
SyncUpload ==
    /\ pc = "sync"
    /\ sync_to_feishu
    /\ \E result \in {"token", "none", "exception"} :
          uploaded' = Uploaded(df, result)
    /\ pc' = "return_path"
    /\ UNCHANGED <<fetchVars, argVars, raw_data, df, parsed, csv_file, xlsx_file,
                   filepath>>
    /\ UNCHANGED <<tokenVars, sheetVars, authVars>>

\* Line 357.
ReturnFilepath ==
    /\ pc = "return_path"
    /\ pc' = "done"
    /\ UNCHANGED <<fetchVars, argVars, crawlVars, raw_data>>
    /\ UNCHANGED <<tokenVars, sheetVars, authVars>>

\* ------------------------------------------------------------ specification
Init ==
    /\ pc = "idle"
    /\ caller = "direct"
    /\ max_pages = None
    /\ category = None
    /\ page = 1
    /\ all_data = <<>>
    /\ data_list = <<>>
    /\ total = Num(0)
    /\ log = <<>>
    /\ responses = <<>>
    /\ served = <<>>
    /\ min_total = MaxTotal + 1
    /\ raw_data = <<>>
    /\ df = <<>>
    /\ parsed = <<>>
    /\ output_format = "csv"
    /\ sync_to_feishu = FALSE
    /\ csv_file = NotWritten
    /\ xlsx_file = NotWritten
    /\ uploaded = NotUploaded
    /\ filepath = "None"
    /\ ClientIdle
    /\ SheetsIdle
    /\ AuthIdle

Next ==
    \/ CallFetchAllData
    \/ CallCrawlAndSave
    \/ MaxPagesCheck
    \/ FetchPageOk
    \/ FetchPageRequestException
    \/ FetchPageValueError
    \/ Sleep
    \/ ReturnAllData
    \/ ParseData
    \/ CategoryFilter
    \/ SaveCsv
    \/ SaveExcel
    \/ NoSync
    \/ SyncWithoutClient
    \/ SyncUpload
    \/ ReturnFilepath

Spec == Init /\ [][Next]_vars

\* ------------------------------------------- parse_data called on its own
PriceChars == {"1", ".", "b"}

\* Raw price cells: missing, null, JSON numbers, and every string over
\* PriceChars up to MaxStrLen, with the strings "1.2", "2.0" and "bad".
PriceVals ==
    {Absent, Null, Num(0), Num(150)}
        \cup {Str(q) : q \in SeqsUpTo(PriceChars, MaxStrLen)}
        \cup {Str(<<"1", ".", "2">>), Str(<<"2", ".", "0">>), Str(<<"b", "a", "d">>)}

PriceCore == {Absent, Str(<<"1", ".", "2">>), Str(<<"b", "a", "d">>)}

\* One price cell ranges over PriceVals while the other two range over PriceCore.
PriceTriples ==
    (PriceVals \X PriceCore \X PriceCore)
        \cup (PriceCore \X PriceVals \X PriceCore)
        \cup (PriceCore \X PriceCore \X PriceVals)

CatVals == {Absent, Null, EmptyStr, Str(veg), Str(fruit)}
PcatVals == {Absent, Null, EmptyStr, Str(veg)}
OtherVals == {Absent, Str(<<"x">>)}

RichRecords ==
    { MkItem(c, p, nm, t[1], t[2], t[3], r) :
        c \in CatVals, p \in PcatVals, nm \in OtherVals, t \in PriceTriples,
        r \in OtherVals }

\* The arguments parse_data is tried on: the empty list, every single rich
\* record, and the longer lists of core records.
ParseInputs ==
    {<<>>} \cup {<<r>> : r \in RichRecords}
           \cup {q \in SeqsUpTo(CoreRecords, MaxRaw) : Len(q) >= 2}

InitParse ==
    /\ pc = "parse"
    /\ caller = "parse"
    /\ raw_data \in ParseInputs
    /\ max_pages = None
    /\ category = None
    /\ page = 1
    /\ all_data = <<>>
    /\ data_list = <<>>
    /\ total = Num(0)
    /\ log = <<>>
    /\ responses = <<>>
    /\ served = <<>>
    /\ min_total = MaxTotal + 1
    /\ df = <<>>
    /\ parsed = <<>>
    /\ output_format = "csv"
    /\ sync_to_feishu = FALSE
    /\ csv_file = NotWritten
    /\ xlsx_file = NotWritten
    /\ uploaded = NotUploaded
    /\ filepath = "None"
    /\ ClientIdle
    /\ SheetsIdle
    /\ AuthIdle

\* The raw records that hold the field values of a normalized table: what
\* rows written back under the ten keys read by lines 210-222 look like.
RawRecords(table) ==
    [i \in 1..Len(table) |->
        [k \in Keys |->
            CASE k = "prodCat" -> table[i].cat1
              [] k = "prodPcat" -> table[i].cat2
              [] k = "prodName" -> table[i].name
              [] k = "lowPrice" -> table[i].low
              [] k = "avgPrice" -> table[i].avg
              [] k = "highPrice" -> table[i].high
              [] k = "specInfo" -> table[i].spec
              [] k = "place" -> table[i].place
              [] k = "unitInfo" -> table[i].unit
              [] k = "pubDate" -> table[i].pubDate]]

\* parse_data (lines 194-230) called a second time, on the records of the
\* table its first call returned; parsed keeps the first table.
ParseAgain ==
    /\ caller = "parse"
    /\ pc = "done"
    /\ df' = parse_data(RawRecords(df))
    /\ pc' = "again"
    /\ UNCHANGED <<fetchVars, argVars, raw_data, parsed, csv_file, xlsx_file,
                   uploaded, filepath>>
    /\ UNCHANGED <<tokenVars, sheetVars, authVars>>

NextParse == ParseData \/ ParseAgain

SpecParse == InitParse /\ [][NextParse]_vars

\* =========================================================================
\* The token manager of the Feishu client, src/feishu_sync.py lines 32-329.
\* =========================================================================
\* The safety margin of lines 245 and 261, in seconds.
Margin == 300
\* The lifetime assumed when the response names none, lines 165, 219 and 276.
DefaultExpire == 7200
\* The lifetime key is missing from the response.
NoLifetime == -1

\* _load_config, lines 66-79.
load_config(s, c) ==
    IF c.exists
    THEN [s EXCEPT !.user_access_token = c.user_access_token,
                   !.refresh_token = c.refresh_token,
                   !.token_expires_at = c.token_expires_at,
                   !.use_tenant_token = c.use_tenant_token]
    ELSE s

\* Mutant of save_config: line 93 is missing and the expiry is not written.
save_config_no_expiry(s, c, io) ==
    IF io
    THEN [c EXCEPT !.exists = TRUE,
                   !.user_access_token = s.user_access_token,
                   !.refresh_token = s.refresh_token]
    ELSE c

\* Mutant of save_config: lines 86-88 are missing and the file is rewritten
\* from an empty dict.
save_config_from_empty(s, c, io) ==
    IF io
    THEN [NewConfig(FALSE) EXCEPT !.exists = TRUE,
                                  !.user_access_token = s.user_access_token,
                                  !.refresh_token = s.refresh_token,
                                  !.token_expires_at = s.token_expires_at]
    ELSE c

\* _save_config, lines 81-99: the file is read (lines 85-88), the token keys
\* are set (lines 91-93) and the dict is written back; io is FALSE when reading
\* or writing the file raises, which line 98 swallows.
save_config(s, c, io) ==
    IF io
    THEN [c EXCEPT !.exists = TRUE,
                   !.user_access_token = s.user_access_token,
                   !.refresh_token = s.refresh_token,
                   !.token_expires_at = s.token_expires_at]
    ELSE c

\* ------------------------------------------------------ the remote's answers
\* Lifetimes the remote reports: none, or one second more than the margin.
ExpiresIn == {NoLifetime, Margin + 1}

\* code != 0 in the JSON body.
Rejected == [status |-> "rejected", life |-> NoLifetime, refresh |-> FALSE, io |-> FALSE]
\* session.post or response.json() raises.
TransportError == [status |-> "error", life |-> NoLifetime, refresh |-> FALSE, io |-> FALSE]
\* code == 0 from the application-credential endpoint.
AppGranted == [status |-> "ok", life |-> NoLifetime, refresh |-> FALSE, io |-> FALSE]
\* code == 0 from a token endpoint: the lifetime reported, whether a refresh
\* token comes with it, and whether the configuration file can be rewritten
\* afterwards.
Granted == [status : {"ok"}, life : ExpiresIn, refresh : BOOLEAN, io : BOOLEAN]

\* The outcomes of exchange_code_for_token and refresh_user_token: the
\* application-credential request fails, or it succeeds and the token request
\* has any outcome.
TwoStep ==
    {<<Rejected, Rejected>>, <<TransportError, TransportError>>}
        \cup ({AppGranted} \X ({Rejected, TransportError} \cup Granted))
\* The outcomes of get_tenant_access_token.
TenantResponses == {Rejected, TransportError} \cup {g \in Granted : ~g.refresh /\ ~g.io}
\* The outcomes of enable_simple_mode.
SimpleResponses == {Rejected, TransportError} \cup {g \in Granted : ~g.refresh}

\* data.get('expires_in', 7200), result.get('expire', 7200)
Lifetime(r) == IF r.life = NoLifetime THEN DefaultExpire ELSE r.life

\* --------------------------------------------------------------- the methods
\* A method maps the record w of what it can touch (the instance, the file,
\* the remote's grant count, the trace of the call so far) to the same record
\* with its return value.
Begin == [self |-> self, config |-> config, issued |-> issued, trace |-> <<>>,
          ret |-> RetBool(FALSE)]
\* A request goes out and the remote's answer (ok, rejected, error) comes back.
Sent(w, what, r) == [w EXCEPT !.trace = @ \o <<what, r.status>>]
\* Another method of the instance is called.
Called(w, what) == [w EXCEPT !.trace = Append(@, what)]
Return(w, r) == [w EXCEPT !.ret = r]

\* The access token the remote grants at this instant.
Issue(kind, r) == [kind |-> kind, at |-> now, expiry |-> now + Lifetime(r)]
\* The refresh token the remote grants at this instant.
RefreshToken == [kind |-> "refresh", at |-> now, expiry |-> 0]

\* Lines 162-168 and 216-222: the success branch of the token request.
StoreUserToken(w, r) ==
    LET s == [w.self EXCEPT !.user_access_token = Issue("user", r),
                            !.refresh_token = IF r.refresh THEN RefreshToken ELSE NoToken,
                            !.token_expires_at = now + Lifetime(r)]
    IN  Return([w EXCEPT !.self = s,
                         !.config = save_config(s, w.config, r.io),
                         !.issued = @ + 1],
               RetBool(TRUE))

\* Mutant of exchange_code_for_token: the check of lines 143-145 is missing
\* and the code exchange is sent whatever the first answer was.
exchange_code_for_token_unchecked(w, r) ==
    LET w1 == Sent(w, "POST app_access_token", r[1])
        w2 == Sent(w1, "POST oidc/access_token", r[2])
    IN  IF r[2].status = "ok" THEN StoreUserToken(w2, r[2])
        ELSE Return(w2, RetBool(FALSE))

\* exchange_code_for_token, lines 121-178.
exchange_code_for_token(w, r) ==
    LET w1 == Sent(w, "POST app_access_token", r[1]) IN
    IF r[1].status # "ok" THEN Return(w1, RetBool(FALSE))
    ELSE LET w2 == Sent(w1, "POST oidc/access_token", r[2]) IN
         IF r[2].status = "ok" THEN StoreUserToken(w2, r[2])
         ELSE Return(w2, RetBool(FALSE))

\* Mutant of refresh_user_token: the guard of lines 182-184 is missing.
refresh_user_token_unguarded(w, r) ==
    LET w1 == Sent(w, "POST app_access_token", r[1]) IN
    IF r[1].status # "ok" THEN Return(w1, RetBool(FALSE))
    ELSE LET w2 == Sent(w1, "POST oidc/refresh_access_token", r[2]) IN
         IF r[2].status = "ok" THEN StoreUserToken(w2, r[2])
         ELSE Return(w2, RetBool(FALSE))

\* refresh_user_token, lines 180-230.
refresh_user_token(w, r) ==
    IF ~TruthyToken(w.self.refresh_token) THEN Return(w, RetBool(FALSE))
    ELSE LET w1 == Sent(w, "POST app_access_token", r[1]) IN
         IF r[1].status # "ok" THEN Return(w1, RetBool(FALSE))
         ELSE LET w2 == Sent(w1, "POST oidc/refresh_access_token", r[2]) IN
              IF r[2].status = "ok" THEN StoreUserToken(w2, r[2])
              ELSE Return(w2, RetBool(FALSE))

\* Mutant of get_user_access_token: line 245 compares with > instead of >=.
get_user_access_token_gt(w, r) ==
    IF ~TruthyToken(w.self.user_access_token) THEN Return(w, RetToken(NoToken))
    ELSE IF now > w.self.token_expires_at - Margin
         THEN LET w1 == refresh_user_token(Called(w, "refresh_user_token"), r) IN
              IF ~w1.ret.b THEN Return(w1, RetToken(NoToken))
              ELSE Return(w1, RetToken(w1.self.user_access_token))
         ELSE Return(w, RetToken(w.self.user_access_token))

\* Mutant of get_user_access_token: after a failed refresh (lines 247-249) the
\* stale token is returned.
get_user_access_token_stale(w, r) ==
    IF ~TruthyToken(w.self.user_access_token) THEN Return(w, RetToken(NoToken))
    ELSE IF now >= w.self.token_expires_at - Margin
         THEN LET w1 == refresh_user_token(Called(w, "refresh_user_token"), r) IN
              Return(w1, RetToken(w1.self.user_access_token))
         ELSE Return(w, RetToken(w.self.user_access_token))

\* get_user_access_token, lines 232-251.
get_user_access_token(w, r) ==
    IF ~TruthyToken(w.self.user_access_token) THEN Return(w, RetToken(NoToken))
    ELSE IF now >= w.self.token_expires_at - Margin
         THEN LET w1 == refresh_user_token(Called(w, "refresh_user_token"), r) IN
              IF ~w1.ret.b THEN Return(w1, RetToken(NoToken))
              ELSE Return(w1, RetToken(w1.self.user_access_token))
         ELSE Return(w, RetToken(w.self.user_access_token))

\* Mutant of get_tenant_access_token: a failed request drops the cached token.
get_tenant_access_token_drops(w, r) ==
    IF TruthyToken(w.self.tenant_access_token) /\ now < w.self.token_expires_at - Margin
    THEN Return(w, RetToken(w.self.tenant_access_token))
    ELSE LET w1 == Sent(w, "POST tenant_access_token", r) IN
         IF r.status = "ok"
         THEN LET s == [w.self EXCEPT !.tenant_access_token = Issue("tenant", r),
                                      !.token_expires_at = now + Lifetime(r)]
              IN  Return([w1 EXCEPT !.self = s, !.issued = @ + 1],
                         RetToken(s.tenant_access_token))
         ELSE Return([w1 EXCEPT !.self.tenant_access_token = NoToken,
                                !.self.token_expires_at = 0],
                     RetToken(NoToken))

\* get_tenant_access_token, lines 253-284.
get_tenant_access_token(w, r) ==
    IF TruthyToken(w.self.tenant_access_token) /\ now < w.self.token_expires_at - Margin
    THEN Return(w, RetToken(w.self.tenant_access_token))
    ELSE LET w1 == Sent(w, "POST tenant_access_token", r) IN
         IF r.status = "ok"
         THEN LET s == [w.self EXCEPT !.tenant_access_token = Issue("tenant", r),
                                      !.token_expires_at = now + Lifetime(r)]
              IN  Return([w1 EXCEPT !.self = s, !.issued = @ + 1],
                         RetToken(s.tenant_access_token))
         ELSE Return(w1, RetToken(NoToken))

\* _get_headers, lines 286-296; the value returned is the bearer token.
get_headers(w, r) ==
    IF w.self.use_tenant_token
    THEN get_tenant_access_token(Called(w, "get_tenant_access_token"), r[2])
    ELSE get_user_access_token(Called(w, "get_user_access_token"), r)

\* enable_simple_mode, lines 298-329.
enable_simple_mode(w, r) ==
    LET w0 == [w EXCEPT !.self.use_tenant_token = TRUE]
        w1 == get_tenant_access_token(w0, r)
    IN  IF w1.ret.b
        THEN IF r.io
             THEN Return([w1 EXCEPT !.config.exists = TRUE,
                                    !.config.use_tenant_token = TRUE],
                         RetBool(TRUE))
             ELSE Return(w1, RetBool(FALSE))
        ELSE Return(w1, RetBool(FALSE))

\* --------------------------------------------------------------- the actions
\* The call named `name` ends with the outcome w.
Finish(name, w) ==
    /\ w.issued <= MaxIssued
    /\ self' = w.self
    /\ config' = w.config
    /\ issued' = w.issued
    /\ trace' = w.trace
    /\ ret' = w.ret
    /\ op' = name
    /\ pre' = Snapshot
    /\ UNCHANGED <<now, crawlerVars, sheetVars, authVars>>

ExchangeCodeForToken ==
    \E r \in TwoStep : \E w \in {exchange_code_for_token(Begin, r)} :
        /\ Finish("exchange_code_for_token", w)
        /\ mode_op' = IF w.ret.b THEN "auth" ELSE mode_op

RefreshUserToken ==
    \E r \in TwoStep : \E w \in {refresh_user_token(Begin, r)} :
        /\ Finish("refresh_user_token", w)
        /\ UNCHANGED mode_op

GetUserAccessToken ==
    \E r \in TwoStep : \E w \in {get_user_access_token(Begin, r)} :
        /\ Finish("get_user_access_token", w)
        /\ UNCHANGED mode_op

GetTenantAccessToken ==
    \E r \in TenantResponses : \E w \in {get_tenant_access_token(Begin, r)} :
        /\ Finish("get_tenant_access_token", w)
        /\ UNCHANGED mode_op

GetHeaders ==
    \E r \in TwoStep : \E w \in {get_headers(Begin, r)} :
        /\ Finish("_get_headers", w)
        /\ UNCHANGED mode_op

EnableSimpleMode ==
    \E r \in SimpleResponses : \E w \in {enable_simple_mode(Begin, r)} :
        /\ Finish("enable_simple_mode", w)
        /\ mode_op' = IF w.ret.b THEN "simple" ELSE mode_op

\* The process ends and load_sync_client (lines 765-795) builds a new client
\* from the configuration file: __init__ then _load_config.
Restart ==
    /\ config.exists
    /\ self' = load_config(NewSelf, config)
    /\ op' = "__init__"
    /\ ret' = RetBool(TRUE)
    /\ trace' = <<>>
    /\ pre' = Snapshot
    /\ UNCHANGED <<now, config, issued, mode_op, crawlerVars, sheetVars, authVars>>

\* One second passes between two operations.
Tick ==
    /\ now < MaxClock
    /\ now' = now + 1
    /\ op' = "tick"
    /\ ret' = RetBool(TRUE)
    /\ trace' = <<>>
    /\ pre' = Snapshot
    /\ UNCHANGED <<self, config, issued, mode_op, crawlerVars, sheetVars, authVars>>

\* The crawler is not running.
CrawlerIdle ==
    /\ pc = "idle"
    /\ caller = "direct"
    /\ max_pages = None
    /\ category = None
    /\ page = 1
    /\ all_data = <<>>
    /\ data_list = <<>>
    /\ total = Num(0)
    /\ log = <<>>
    /\ responses = <<>>
    /\ served = <<>>
    /\ min_total = MaxTotal + 1
    /\ raw_data = <<>>
    /\ df = <<>>
    /\ parsed = <<>>
    /\ output_format = "csv"
    /\ sync_to_feishu = FALSE
    /\ csv_file = NotWritten
    /\ xlsx_file = NotWritten
    /\ uploaded = NotUploaded
    /\ filepath = "None"

\* FeishuSync(app_id, app_secret) constructed with the template
\* configuration file, or with no file.
InitToken ==
    /\ CrawlerIdle
    /\ SheetsIdle
    /\ AuthIdle
    /\ now = 0
    /\ config \in {NewConfig(FALSE), NewConfig(TRUE)}
    /\ self = load_config(NewSelf, config)
    /\ issued = 0
    /\ op = "__init__"
    /\ ret = RetBool(TRUE)
    /\ trace = <<>>
    /\ mode_op = "none"
    /\ pre = Snapshot

NextToken ==
    \/ ExchangeCodeForToken
    \/ RefreshUserToken
    \/ GetUserAccessToken
    \/ GetTenantAccessToken
    \/ GetHeaders
    \/ EnableSimpleMode
    \/ Restart
    \/ Tick

SpecToken == InitToken /\ [][NextToken]_vars

\* FeishuSync(app_id, app_secret) constructed with the filled-in template;
\* the file may already hold the simple-mode flag.
InitConfig ==
    /\ CrawlerIdle
    /\ SheetsIdle
    /\ AuthIdle
    /\ now = 0
    /\ config \in {[TemplateConfig EXCEPT !.use_tenant_token = b] : b \in BOOLEAN}
    /\ self = load_config(NewSelf, config)
    /\ issued = 0
    /\ op = "__init__"
    /\ ret = RetBool(TRUE)
    /\ trace = <<>>
    /\ mode_op = "none"
    /\ pre = Snapshot

SpecConfig == InitConfig /\ [][NextToken]_vars

\* =========================================================================
\* The upload pipeline of the Feishu client (src/feishu_sync.py, lines 330-721)
\* =========================================================================

\* -------------------------------------------- get_unique_filename / _sheet_title
DigitChars == <<"0", "1", "2", "3", "4", "5", "6", "7", "8", "9">>

\* str(n) of a non-negative int, as the f-string of lines 380 and 566 formats it.
RECURSIVE Decimal(_)
Decimal(n) ==
    IF n < 10 THEN <<DigitChars[n + 1]>>
    ELSE Decimal(n \div 10) \o <<DigitChars[(n % 10) + 1]>>

\* f"{base_name}_({counter})"
Suffixed(base, counter) == base \o <<"_", "(">> \o Decimal(counter) \o <<")">>

\* The loop of lines 378-383 (564-569) from the value counter has.
RECURSIVE FirstFree(_, _, _)
FirstFree(base, existing, counter) ==
    IF Suffixed(base, counter) \notin existing THEN Suffixed(base, counter)
    ELSE FirstFree(base, existing, counter + 1)

\* Mutant of get_unique_filename: the counter starts at 2.
get_unique_filename_from_two(base, existing) ==
    IF base \notin existing THEN base ELSE FirstFree(base, existing, 2)

\* get_unique_filename, lines 373-383, on the names the listing returned.
get_unique_filename(base, existing) ==
    IF base \notin existing THEN base ELSE FirstFree(base, existing, 1)

\* get_unique_sheet_title, lines 559-569, on the titles get_sheets returned.
get_unique_sheet_title(base, existing) ==
    IF base \notin existing THEN base ELSE FirstFree(base, existing, 1)

\* The names tried: a report title, the same title already suffixed, and sets
\* of names around them; Taken(b, n) is b with its first n suffixed names.
Report == <<"R">>
BaseNames == {Report, Suffixed(Report, 1)}
NearNames == {Report, Suffixed(Report, 1), Suffixed(Report, 2), Suffixed(Report, 3),
              Suffixed(Suffixed(Report, 1), 1), <<>>}
Taken(b, n) == {b} \cup {Suffixed(b, k) : k \in 1..n}
ExistingSets ==
    (SUBSET NearNames) \cup {Taken(b, n) : b \in BaseNames, n \in 0..MaxTaken}

GetUniqueFilename ==
    /\ naming = "none"
    /\ naming' = "get_unique_filename"
    /\ unique_name' = get_unique_filename(base_name, existing_names)
    /\ UNCHANGED <<base_name, existing_names, columnVars, uploadVars, authVars,
                   tokenVars, crawlerVars>>

GetUniqueSheetTitle ==
    /\ naming = "none"
    /\ naming' = "get_unique_sheet_title"
    /\ unique_name' = get_unique_sheet_title(base_name, existing_names)
    /\ UNCHANGED <<base_name, existing_names, columnVars, uploadVars, authVars,
                   tokenVars, crawlerVars>>

\* One of the two functions is about to be called on a name and a listing.
InitNames ==
    /\ CrawlerIdle /\ ClientIdle /\ ColumnsIdle /\ UploadIdle /\ AuthIdle
    /\ naming = "none"
    /\ base_name \in BaseNames
    /\ existing_names \in ExistingSets
    /\ unique_name = <<>>

NextNames == GetUniqueFilename \/ GetUniqueSheetTitle

SpecNames == InitNames /\ [][NextNames]_vars

\* ------------------------------------------------------------ col_to_letter
Alphabet == <<"A", "B", "C", "D", "E", "F", "G", "H", "I", "J", "K", "L", "M",
              "N", "O", "P", "Q", "R", "S", "T", "U", "V", "W", "X", "Y", "Z">>

\* Mutant of col_to_letter: line 606 (col -= 1) is missing.
RECURSIVE col_to_letter_plain(_)
col_to_letter_plain(c) ==
    IF c > 0
    THEN col_to_letter_plain(c \div 26) \o <<Alphabet[(c % 26) + 1]>>
    ELSE <<>>

\* col_to_letter, lines 603-609: each turn of the loop takes one off col,
\* puts chr(col % 26 + ord('A')) in front of result and divides col by 26.
RECURSIVE col_to_letter(_)
col_to_letter(c) ==
    IF c > 0
    THEN col_to_letter((c - 1) \div 26) \o <<Alphabet[((c - 1) % 26) + 1]>>
    ELSE <<>>

\* write_data reaches line 611 with the column count of its grid.
ColToLetter ==
    /\ end_col = <<>>
    /\ end_col' = col_to_letter(cols)
    /\ UNCHANGED <<cols, nameVars, uploadVars, authVars, tokenVars, crawlerVars>>

InitColumns ==
    /\ CrawlerIdle /\ ClientIdle /\ NamesIdle /\ UploadIdle /\ AuthIdle
    /\ cols \in 1..MaxCol
    /\ end_col = <<>>

NextColumns == ColToLetter

SpecColumns == InitColumns /\ [][NextColumns]_vars

\* ---------------------------------------------------- the remote spreadsheets
\* batch_size's default, line 577.
DefaultBatch == 4000

\* The answer to a request: code 0, another code, or an exception raised by
\* the session call or by response.json().
Answers == {"ok", "rejected", "error"}
\* The remote accepts no request that carries "Bearer None".
AnswersTo(bearer) == IF TruthyToken(bearer) THEN Answers ELSE Answers \ {"ok"}

\* What the token endpoints answer while a request's headers are built: they
\* reject, or they grant with the default lifetime.
HeaderOutcomes == {<<Rejected, Rejected>>, <<AppGranted, AppGranted>>}

\* The clients that upload, each as load_sync_client builds it: one that
\* never authorized, one that exchanged a code, and one restarted after
\* enable_simple_mode (the service token is not in the file, so it has none).
FreshClient ==
    [self |-> NewSelf, config |-> NewConfig(TRUE), issued |-> 0, trace |-> <<>>,
     ret |-> RetBool(FALSE)]
Persistent == [status |-> "ok", life |-> NoLifetime, refresh |-> TRUE, io |-> TRUE]
Reloaded(w) == [w EXCEPT !.self = load_config(NewSelf, w.config)]
Clients ==
    {FreshClient,
     Reloaded(exchange_code_for_token(FreshClient, <<AppGranted, Persistent>>)),
     Reloaded(enable_simple_mode(FreshClient, [Persistent EXCEPT !.refresh = FALSE]))}

\* _get_headers has run inside a request: the instance, the file and the
\* remote's grant count are as it left them.
UseHeaders(w) ==
    /\ w.issued <= MaxIssued
    /\ self' = w.self
    /\ config' = w.config
    /\ issued' = w.issued
    /\ UNCHANGED <<now, op, ret, trace, mode_op, pre>>

\* Line 634: the column letter written into every range, f"...!A{row}:...".
FirstColumn == <<"A">>

\* A request as the remote saw it and answered it: the endpoint, the bearer
\* token of its Authorization header, the names in the folder when it
\* arrived, the title (create), the spreadsheet token of its URL (sheet
\* query, write) or of its answer (create; 0 when it failed), and for a
\* write the sheet rows first..last, the start and end column of its range
\* and the grid rows from..to-1 of its values.
Request(api, w, a, title, target, first, last, from, to) ==
    [api |-> api, bearer |-> w.ret.tok, status |-> a, folder |-> remote.names,
     title |-> title, target |-> target, first |-> first, last |-> last,
     start_col |-> IF api = "write" THEN FirstColumn ELSE <<>>,
     end_col |-> end_col, from |-> from, to |-> to]

\* A return value: None / a spreadsheet token, or a bool.
ReturnsToken(t) == [done |-> TRUE, raised |-> FALSE, b |-> t # 0, tok |-> t]
ReturnsBool(b) == [done |-> TRUE, raised |-> FALSE, b |-> b, tok |-> 0]
Raises == [done |-> TRUE, raised |-> TRUE, b |-> FALSE, tok |-> 0]

\* ------------------------------------------------------------- write_data
Lowercase == <<"a", "b", "c", "d", "e", "f", "g", "h", "i", "j", "k", "l", "m",
               "n", "o", "p", "q", "r", "s", "t", "u", "v", "w", "x", "y", "z">>
\* str.upper() on one character.
Upper(ch) ==
    IF \E i \in 1..26 : Lowercase[i] = ch
    THEN Alphabet[CHOOSE i \in 1..26 : Lowercase[i] = ch]
    ELSE ch
IsCapital(ch) == \E i \in 1..26 : Alphabet[i] = ch

\* int() of a string of digits.
RECURSIVE IntOf(_)
IntOf(chars) ==
    IF chars = <<>> THEN 0
    ELSE 10 * IntOf(SubSeq(chars, 1, Len(chars) - 1)) + DigitVal(chars[Len(chars)])

\* Lines 614-619: start_cell.upper() against ^([A-Z]+)(\d+)$; the row is the
\* number after the letters, and 1 when the cell does not match.
StartRow(cell) ==
    LET up == [i \in 1..Len(cell) |-> Upper(cell[i])]
        letters == {k \in 1..Len(up) : \A i \in 1..k : IsCapital(up[i])}
        k == IF letters = {} THEN 0 ELSE CHOOSE x \in letters : \A y \in letters : y <= x
        digits == SubSeq(up, k + 1, Len(up))
    IN  IF k >= 1 /\ digits # <<>> /\ \A i \in 1..Len(digits) : digits[i] \in Digits
        THEN IntOf(digits)
        ELSE 1

\* Mutant of Batches: the division of line 625 drops the last, shorter chunk.
BatchesFloor(rows, size) == rows \div size

\* Line 625.
Batches(rows, size) == (rows + size - 1) \div size
Min(a, b) == IF a <= b THEN a ELSE b
\* Line 628.
BatchStart(idx, size) == idx * size

\* Mutant of BatchEnd: the slice of line 629 ends one row early.
BatchEndShort(idx, size, rows) == Min((idx + 1) * size, rows) - 1

\* Line 629.
BatchEnd(idx, size, rows) == Min((idx + 1) * size, rows)

\* The remote carries out a write it accepts: the values go to consecutive
\* rows from the first row of the range.  A sheet is the sequence of the
\* writes it received.
Applied(store, req) ==
    [store EXCEPT !.sheets[req.target] = Append(@, req)]

\* Mutant of WriteChunk: a rejected chunk does not end the loop.
WriteChunkContinues ==
    /\ stage = "write"
    /\ batch_idx < Batches(total_rows, call.batch_size)
    /\ \E h \in HeaderOutcomes : \E w \in {get_headers(Begin, h)} :
       \E a \in AnswersTo(w.ret.tok) :
        LET size == call.batch_size
            batch_start == BatchStart(batch_idx, size)
            batch_end == BatchEnd(batch_idx, size, total_rows)
            start_row == StartRow(call.start_cell)
            req == Request("write", w, a, <<>>, spreadsheet_token,
                           start_row + batch_start, start_row + batch_end - 1,
                           batch_start, batch_end)
            last == batch_idx + 1 >= Batches(total_rows, size)
        IN  /\ UseHeaders(w)
            /\ sent' = Append(sent, req)
            /\ remote' = IF a = "ok" THEN Applied(remote, req) ELSE remote
            /\ batch_idx' = batch_idx + 1
            /\ stage' = IF last THEN "done" ELSE "write"
            /\ returned' = IF ~last THEN returned
                           ELSE IF call.fn = "write_data" THEN ReturnsBool(TRUE)
                           ELSE ReturnsToken(spreadsheet_token)
    /\ UNCHANGED <<call, file_title, spreadsheet_token, sheet_id, total_rows,
                   nameVars, columnVars, authVars, crawlerVars>>

\* One turn of the loop of lines 627-656: the chunk batch_idx is put; a
\* rejected or failed put returns False, and the last accepted one is
\* followed by return True (line 658).  Inside upload_dataframe the caller
\* then returns the spreadsheet token or None (lines 717-721).
WriteChunk ==
    /\ stage = "write"
    /\ batch_idx < Batches(total_rows, call.batch_size)
    /\ \E h \in HeaderOutcomes : \E w \in {get_headers(Begin, h)} :
       \E a \in AnswersTo(w.ret.tok) :
        LET size == call.batch_size
            batch_start == BatchStart(batch_idx, size)
            batch_end == BatchEnd(batch_idx, size, total_rows)
            start_row == StartRow(call.start_cell)
            req == Request("write", w, a, <<>>, spreadsheet_token,
                           start_row + batch_start, start_row + batch_end - 1,
                           batch_start, batch_end)
            last == batch_idx + 1 >= Batches(total_rows, size)
        IN  /\ UseHeaders(w)
            /\ sent' = Append(sent, req)
            /\ remote' = IF a = "ok" THEN Applied(remote, req) ELSE remote
            /\ batch_idx' = IF a = "ok" THEN batch_idx + 1 ELSE batch_idx
            /\ stage' = IF a = "ok" /\ ~last THEN "write" ELSE "done"
            /\ returned' = IF a = "ok" /\ ~last THEN returned
                           ELSE IF call.fn = "write_data" THEN ReturnsBool(a = "ok")
                           ELSE ReturnsToken(IF a = "ok" THEN spreadsheet_token ELSE 0)
    /\ UNCHANGED <<call, file_title, spreadsheet_token, sheet_id, total_rows,
                   nameVars, columnVars, authVars, crawlerVars>>

\* The arguments tried: grids of 0..MaxRows rows and the large one, one
\* column or twenty-seven, batch sizes 1..MaxBatch and the default (the
\* large grid with the default only), and start cells that match the
\* pattern in upper case, in lower case, with two digits, and not at all.
Widths == {1, 27}
StartCells == {<<"A", "1">>, <<"b", "3">>, <<"A", "1", "2">>, <<"3">>}
RowCounts == 0..MaxRows \cup {ManyRows}
BatchSizes(rows) == IF rows <= MaxRows THEN 1..MaxBatch \cup {DefaultBatch} ELSE {DefaultBatch}

\* write_data(data, sheet_id, start_cell, spreadsheet_token, batch_size) is
\* called, lines 592-625: with no token argument line 592 reads
\* self.spreadsheet_token, which no line of the class assigns
\* (AttributeError); an empty grid, or one of no chunk, returns True.
CallWriteData ==
    /\ stage = "idle"
    /\ \E rows \in RowCounts, width \in Widths, cell \in StartCells,
          token \in 0..Len(remote.sheets) :
       \E size \in BatchSizes(rows) :
        /\ call' = [fn |-> "write_data", title |-> <<>>, auto_rename |-> FALSE,
                    rows |-> rows, width |-> width, start_cell |-> cell,
                    batch_size |-> size, token |-> token]
        /\ spreadsheet_token' = token
        /\ sheet_id' = 1
        /\ total_rows' = rows
        /\ batch_idx' = 0
        /\ sent' = <<>>
        /\ IF token = 0
           THEN /\ stage' = "done"
                /\ returned' = Raises
                /\ UNCHANGED columnVars
           ELSE IF rows = 0 \/ Batches(rows, size) = 0
           THEN /\ stage' = "done"
                /\ returned' = ReturnsBool(TRUE)
                /\ UNCHANGED columnVars
           ELSE /\ stage' = "write"
                /\ returned' = NotReturned
                /\ cols' = width
                /\ end_col' = col_to_letter(width)
    /\ UNCHANGED <<file_title, remote, nameVars, authVars, tokenVars, crawlerVars>>

\* One spreadsheet with an empty sheet exists and write_data is about to be
\* called by any of the clients.
InitWrite ==
    /\ CrawlerIdle /\ NamesIdle /\ ColumnsIdle /\ AuthIdle
    /\ now = 0
    /\ \E w \in Clients : self = w.self /\ config = w.config /\ issued = w.issued
    /\ op = "__init__"
    /\ ret = RetBool(TRUE)
    /\ trace = <<>>
    /\ mode_op = "none"
    /\ pre = Snapshot
    /\ stage = "idle"
    /\ call = NoCall
    /\ file_title = <<>>
    /\ spreadsheet_token = 0
    /\ sheet_id = 0
    /\ total_rows = 0
    /\ batch_idx = 0
    /\ remote = [names |-> {Report}, sheets |-> << <<>> >>]
    /\ sent = <<>>
    /\ returned = NotReturned

\* The methods that take the same first step as write_data.
TokenMethods == {"get_spreadsheet_info", "get_sheets", "create_sheet"}

\* get_spreadsheet_info(None), get_sheets() or create_sheet(title) is
\* called with no spreadsheet token, lines 441, 471 and 506: the argument
\* is falsy, so `spreadsheet_token or self.spreadsheet_token` reads the
\* attribute that no line of the class assigns (AttributeError) before the
\* test of the next line is reached.
CallWithoutToken ==
    /\ stage = "idle"
    /\ \E fn \in TokenMethods :
        call' = [fn |-> fn, title |-> <<>>, auto_rename |-> FALSE, rows |-> 0,
                 width |-> 0, start_cell |-> <<>>, batch_size |-> 0, token |-> 0]
    /\ stage' = "done"
    /\ returned' = Raises
    /\ sent' = <<>>
    /\ UNCHANGED <<file_title, spreadsheet_token, sheet_id, total_rows, batch_idx,
                   remote>>
    /\ UNCHANGED <<nameVars, columnVars, authVars, tokenVars, crawlerVars>>

NextWrite == CallWriteData \/ WriteChunk \/ CallWithoutToken

SpecWrite == InitWrite /\ [][NextWrite]_vars

\* -------------------------------------------------------- upload_dataframe
\* The tables uploaded: no row, one row, and the large one, of twenty-seven
\* columns.
TableRows == {0, 1, ManyRows}
TableWidths == {27}
\* The names that may be in the target folder before the first upload.
FolderNames == {Report, Suffixed(Report, 1)}

\* upload_dataframe(df, file_title, folder_token, auto_rename) is called,
\* lines 679-683.
CallUploadDataframe ==
    /\ stage \in {"idle", "done"}
    /\ Len(remote.sheets) < MaxCreated
    /\ \E rows \in TableRows, width \in TableWidths, rename \in BOOLEAN :
        /\ call' = [fn |-> "upload_dataframe", title |-> Report, auto_rename |-> rename,
                    rows |-> rows, width |-> width, start_cell |-> <<"A", "1">>,
                    batch_size |-> DefaultBatch, token |-> 0]
        /\ stage' = IF rename THEN "list" ELSE "create"
    /\ file_title' = Report
    /\ spreadsheet_token' = 0
    /\ sheet_id' = 0
    /\ total_rows' = 0
    /\ batch_idx' = 0
    /\ sent' = <<>>
    /\ returned' = NotReturned
    /\ naming' = "none"
    /\ base_name' = <<>>
    /\ existing_names' = {}
    /\ unique_name' = <<>>
    /\ cols' = 0
    /\ end_col' = <<>>
    /\ UNCHANGED <<remote, authVars, tokenVars, crawlerVars>>

\* get_unique_filename inside upload_dataframe (line 683): list_folder_files
\* (lines 344-359) asks for the files of the folder; code 0 gives their
\* names, any other answer the empty list; then lines 373-383 choose the
\* title.  The folders listed hold fewer files than the page_size of 100.
ListFolderFiles ==
    /\ stage = "list"
    /\ \E h \in HeaderOutcomes : \E w \in {get_headers(Begin, h)} :
       \E a \in AnswersTo(w.ret.tok) :
        LET files == IF a = "ok" THEN remote.names ELSE {} IN
        /\ UseHeaders(w)
        /\ sent' = Append(sent, Request("list", w, a, <<>>, 0, 0, 0, 0, 0))
        /\ naming' = "get_unique_filename"
        /\ base_name' = file_title
        /\ existing_names' = files
        /\ unique_name' = get_unique_filename(file_title, files)
        /\ file_title' = unique_name'
        /\ stage' = "create"
    /\ UNCHANGED <<call, spreadsheet_token, sheet_id, total_rows, batch_idx, remote,
                   returned, columnVars, authVars, crawlerVars>>

\* Mutant of CreateSpreadsheet: lines 687-689 are missing and a failed create is
\* followed by the sheet query.
CreateSpreadsheetGoesOn ==
    /\ stage = "create"
    /\ \E h \in HeaderOutcomes : \E w \in {get_headers(Begin, h)} :
       \E a \in AnswersTo(w.ret.tok) :
        LET token == IF a = "ok" THEN Len(remote.sheets) + 1 ELSE 0 IN
        /\ UseHeaders(w)
        /\ sent' = Append(sent, Request("create", w, a, file_title, token, 0, 0, 0, 0))
        /\ remote' = IF a = "ok"
                     THEN [names |-> remote.names \cup {file_title},
                           sheets |-> Append(remote.sheets, <<>>)]
                     ELSE remote
        /\ spreadsheet_token' = token
        /\ stage' = "sheets"
        /\ UNCHANGED returned
    /\ UNCHANGED <<call, file_title, sheet_id, total_rows, batch_idx,
                   nameVars, columnVars, authVars, crawlerVars>>

\* Mutant of CreateSpreadsheet: the token of the first spreadsheet created is
\* kept and used again.
CreateSpreadsheetCached ==
    /\ stage = "create"
    /\ \E h \in HeaderOutcomes : \E w \in {get_headers(Begin, h)} :
       \E a \in AnswersTo(w.ret.tok) :
        LET token == IF a = "ok" THEN Len(remote.sheets) + 1 ELSE 0 IN
        /\ UseHeaders(w)
        /\ sent' = Append(sent, Request("create", w, a, file_title, token, 0, 0, 0, 0))
        /\ IF a = "ok"
           THEN /\ remote' = [names |-> remote.names \cup {file_title},
                              sheets |-> Append(remote.sheets, <<>>)]
                /\ spreadsheet_token' = 1
                /\ stage' = "sheets"
                /\ UNCHANGED returned
           ELSE /\ stage' = "done"
                /\ returned' = ReturnsToken(0)
                /\ UNCHANGED <<remote, spreadsheet_token>>
    /\ UNCHANGED <<call, file_title, sheet_id, total_rows, batch_idx,
                   nameVars, columnVars, authVars, crawlerVars>>

\* create_spreadsheet inside upload_dataframe, lines 411-429 and 686-689:
\* code 0 gives the token of the new spreadsheet, which the remote filed
\* under the title; any other answer gives None and the upload returns None.
CreateSpreadsheet ==
    /\ stage = "create"
    /\ \E h \in HeaderOutcomes : \E w \in {get_headers(Begin, h)} :
       \E a \in AnswersTo(w.ret.tok) :
        LET token == IF a = "ok" THEN Len(remote.sheets) + 1 ELSE 0 IN
        /\ UseHeaders(w)
        /\ sent' = Append(sent, Request("create", w, a, file_title, token, 0, 0, 0, 0))
        /\ IF a = "ok"
           THEN /\ remote' = [names |-> remote.names \cup {file_title},
                              sheets |-> Append(remote.sheets, <<>>)]
                /\ spreadsheet_token' = token
                /\ stage' = "sheets"
                /\ UNCHANGED returned
           ELSE /\ stage' = "done"
                /\ returned' = ReturnsToken(0)
                /\ UNCHANGED <<remote, spreadsheet_token>>
    /\ UNCHANGED <<call, file_title, sheet_id, total_rows, batch_idx,
                   nameVars, columnVars, authVars, crawlerVars>>

\* get_sheets inside upload_dataframe, lines 471-489 and 691-715: code 0
\* gives the sheets of the spreadsheet (the one it was created with, or
\* none); with no sheet the upload returns None; otherwise write_data is
\* entered (lines 592-625) with the header row and the table rows.
GetSheets ==
    /\ stage = "sheets"
    /\ \E h \in HeaderOutcomes : \E w \in {get_headers(Begin, h)} :
       \E a \in AnswersTo(w.ret.tok) : \E sheets \in {0, 1} :
        /\ a # "ok" => sheets = 0
        /\ UseHeaders(w)
        /\ sent' = Append(sent, Request("sheets", w, a, <<>>, spreadsheet_token, 0, 0, 0, 0))
        /\ IF sheets = 0
           THEN /\ stage' = "done"
                /\ returned' = ReturnsToken(0)
                /\ UNCHANGED <<sheet_id, total_rows, columnVars>>
           ELSE /\ stage' = "write"
                /\ sheet_id' = 1
                /\ total_rows' = call.rows + 1
                /\ cols' = call.width
                /\ end_col' = col_to_letter(call.width)
                /\ UNCHANGED returned
    /\ UNCHANGED <<call, file_title, spreadsheet_token, batch_idx, remote,
                   nameVars, authVars, crawlerVars>>

\* A client is about to upload to a folder that holds any of the names.
InitUpload ==
    /\ CrawlerIdle /\ NamesIdle /\ ColumnsIdle /\ AuthIdle
    /\ now = 0
    /\ \E w \in Clients : self = w.self /\ config = w.config /\ issued = w.issued
    /\ op = "__init__"
    /\ ret = RetBool(TRUE)
    /\ trace = <<>>
    /\ mode_op = "none"
    /\ pre = Snapshot
    /\ stage = "idle"
    /\ call = NoCall
    /\ file_title = <<>>
    /\ spreadsheet_token = 0
    /\ sheet_id = 0
    /\ total_rows = 0
    /\ batch_idx = 0
    /\ remote \in {[names |-> n, sheets |-> <<>>] : n \in SUBSET FolderNames}
    /\ sent = <<>>
    /\ returned = NotReturned

NextUpload ==
    \/ CallUploadDataframe
    \/ ListFolderFiles
    \/ CreateSpreadsheet
    \/ GetSheets
    \/ WriteChunk

SpecUpload == InitUpload /\ [][NextUpload]_vars

\* =========================================================================
\* start_auth_server (src/feishu_sync.py, lines 809-913)
\* =========================================================================
\* server.timeout, line 867, and timeout, line 889, in seconds.
PollSeconds == 5
AuthTimeout == 300

\* The function does something the user or the claim can observe.
Event(e) == events' = Append(events, e)

\* The same, for what may happen any number of times: only the first is kept.
Note(e) ==
    events' = IF \E i \in 1..Len(events) : events[i] = e THEN events
              ELSE Append(events, e)

\* The token manager is not touched.
ClientUntouched == UNCHANGED <<tokenVars, sheetVars, crawlerVars>>

\* start_auth_server(client) is called.
CallStartAuthServer ==
    /\ auth_pc = "idle"
    /\ auth_pc' = "check"
    /\ UNCHANGED <<port, auth_code, server_done, polls, events, auth_ret>>
    /\ ClientUntouched

\* Mutant of CheckPort: lines 856-862 are missing.
CheckPortSkipped ==
    /\ auth_pc = "check"
    /\ auth_pc' = "bind"
    /\ UNCHANGED <<port, auth_code, server_done, polls, events, auth_ret>>
    /\ ClientUntouched

\* Lines 856-862: a test socket is bound to localhost:9000 and closed; when
\* the bind raises OSError the conflict is printed and False returned.
CheckPort ==
    /\ auth_pc = "check"
    /\ IF port = "free"
       THEN /\ Event("port_free")
            /\ auth_pc' = "bind"
            /\ UNCHANGED auth_ret
       ELSE /\ Event("report_port_in_use")
            /\ auth_pc' = "done"
            /\ auth_ret' = "False"
    /\ UNCHANGED <<port, auth_code, server_done, polls>>
    /\ ClientUntouched

\* Another program binds the port after the test socket was closed.
OtherBinds ==
    /\ auth_pc = "bind"
    /\ port = "free"
    /\ port' = "other"
    /\ UNCHANGED <<auth_pc, auth_code, server_done, polls, events, auth_ret>>
    /\ ClientUntouched

\* Lines 865-870: HTTPServer binds and listens, or its failure is printed
\* and False returned.
StartServer ==
    /\ auth_pc = "bind"
    /\ IF port = "free"
       THEN /\ port' = "server"
            /\ Event("listening")
            /\ auth_pc' = "browser"
            /\ UNCHANGED auth_ret
       ELSE /\ Event("report_start_failed")
            /\ auth_pc' = "done"
            /\ auth_ret' = "False"
            /\ UNCHANGED port
    /\ UNCHANGED <<auth_code, server_done, polls>>
    /\ ClientUntouched

\* Lines 873-889: the link is printed, webbrowser.open is tried (what it
\* raises is swallowed) and the wait starts.
OpenBrowser ==
    /\ auth_pc = "browser"
    /\ Event("open_browser")
    /\ auth_pc' = "wait"
    /\ polls' = 0
    /\ UNCHANGED <<port, auth_code, server_done, auth_ret>>
    /\ ClientUntouched

\* Where handle_request (line 893) is: waiting for a connection, or inside
\* the handler of an accepted connection that has sent no request yet.
InHandleRequest == auth_pc \in {"wait", "stalled"}
\* Line 894, evaluated once handle_request has returned.
TimedOut == PollSeconds * polls > AuthTimeout
\* Time beyond the limit makes no further difference.
LastPoll == AuthTimeout \div PollSeconds + 2

\* Line 893 with do_GET, lines 820-837: a GET whose query has a code.
HandleCode ==
    /\ InHandleRequest
    /\ ~server_done
    /\ auth_code' = "code"
    /\ server_done' = TRUE
    /\ Event("page_success")
    /\ auth_pc' = "close"
    /\ UNCHANGED <<port, polls, auth_ret>>
    /\ ClientUntouched

\* Line 893 with do_GET, lines 838-844: a GET whose query has no code.
HandleNoCode ==
    /\ InHandleRequest
    /\ ~server_done
    /\ server_done' = TRUE
    /\ Event("page_failure")
    /\ auth_pc' = "close"
    /\ UNCHANGED <<port, auth_code, polls, auth_ret>>
    /\ ClientUntouched

\* Lines 893-896: handle_request returns after server.timeout seconds with
\* no request; more than timeout seconds after the start the loop is left.
PollTimeout ==
    /\ auth_pc = "wait"
    /\ ~server_done
    /\ polls' = polls + 1
    /\ IF PollSeconds * (polls + 1) > AuthTimeout
       THEN /\ Event("report_timeout")
            /\ auth_pc' = "close"
       ELSE UNCHANGED <<events, auth_pc>>
    /\ UNCHANGED <<port, auth_code, server_done, auth_ret>>
    /\ ClientUntouched

\* Line 893: a request of another method (HEAD, POST); CallbackHandler
\* defines do_GET only, the request is answered 501 and server_done stays
\* False; then line 894.
HandleOther ==
    /\ InHandleRequest
    /\ ~server_done
    /\ IF TimedOut
       THEN /\ events' = events \o <<"page_501", "report_timeout">>
            /\ auth_pc' = "close"
       ELSE /\ Note("page_501")
            /\ auth_pc' = "wait"
    /\ UNCHANGED <<port, auth_code, server_done, polls, auth_ret>>
    /\ ClientUntouched

\* Line 893: a connection is accepted and the handler reads its request
\* line; CallbackHandler sets no timeout (line 818 on), so the read waits
\* for the peer however long it takes.
AcceptSilent ==
    /\ auth_pc = "wait"
    /\ ~server_done
    /\ auth_pc' = "stalled"
    /\ Note("accepted")
    /\ UNCHANGED <<port, auth_code, server_done, polls, auth_ret>>
    /\ ClientUntouched

\* A period of server.timeout passes while the handler waits for the peer.
StallTick ==
    /\ auth_pc = "stalled"
    /\ polls < LastPoll
    /\ polls' = polls + 1
    /\ UNCHANGED <<auth_pc, port, auth_code, server_done, events, auth_ret>>
    /\ ClientUntouched

\* The peer closes the connection without a request: handle_request
\* returns; then line 894.
PeerCloses ==
    /\ auth_pc = "stalled"
    /\ IF TimedOut
       THEN /\ Event("report_timeout")
            /\ auth_pc' = "close"
       ELSE /\ auth_pc' = "wait"
            /\ UNCHANGED events
    /\ UNCHANGED <<port, auth_code, server_done, polls, auth_ret>>
    /\ ClientUntouched

\* Lines 897-900: Ctrl+C during the wait.
Interrupt ==
    /\ InHandleRequest
    /\ ~server_done
    /\ events' = events \o <<"report_cancelled", "closed">>
    /\ port' = "free"
    /\ auth_pc' = "done"
    /\ auth_ret' = "False"
    /\ UNCHANGED <<auth_code, server_done, polls>>
    /\ ClientUntouched

\* Lines 902-913: the listener is closed; with no code False is returned.
CloseServer ==
    /\ auth_pc = "close"
    /\ port' = "free"
    /\ Event("closed")
    /\ IF auth_code = "None"
       THEN auth_pc' = "done" /\ auth_ret' = "False"
       ELSE auth_pc' = "exchange" /\ UNCHANGED auth_ret
    /\ UNCHANGED <<auth_code, server_done, polls>>
    /\ ClientUntouched

\* Line 906: the code is exchanged and the result returned.
ExchangeCode ==
    /\ auth_pc = "exchange"
    /\ \E r \in TwoStep : \E w \in {exchange_code_for_token(Begin, r)} :
        /\ w.issued <= MaxIssued
        /\ self' = w.self
        /\ config' = w.config
        /\ issued' = w.issued
        /\ trace' = w.trace
        /\ ret' = w.ret
        /\ op' = "exchange_code_for_token"
        /\ pre' = Snapshot
        /\ mode_op' = IF w.ret.b THEN "auth" ELSE mode_op
        /\ auth_ret' = IF w.ret.b THEN "True" ELSE "False"
    /\ Event("exchange")
    /\ auth_pc' = "done"
    /\ UNCHANGED <<now, port, auth_code, server_done, polls, sheetVars, crawlerVars>>

\* A new client, and the port free or held by another program.
InitAuth ==
    /\ CrawlerIdle /\ ClientIdle /\ SheetsIdle
    /\ auth_pc = "idle"
    /\ port \in {"free", "other"}
    /\ auth_code = "None"
    /\ server_done = FALSE
    /\ polls = 0
    /\ events = <<>>
    /\ auth_ret = "pending"

NextAuth ==
    \/ CallStartAuthServer
    \/ CheckPort
    \/ OtherBinds
    \/ StartServer
    \/ OpenBrowser
    \/ HandleCode
    \/ HandleNoCode
    \/ PollTimeout
    \/ HandleOther
    \/ AcceptSilent
    \/ StallTick
    \/ PeerCloses
    \/ Interrupt
    \/ CloseServer
    \/ ExchangeCode

SpecAuth == InitAuth /\ [][NextAuth]_vars

\* ================================================================= claims
Last(q) == q[Len(q)]

\* The pages requested so far, in order.
RequestedPages ==
    LET IsRequest(e) == e.ev = "request"
        reqs == SelectSeq(log, IsRequest)
    IN [i \in 1..Len(reqs) |-> reqs[i].page]

\* The positions at which fetch_all_data has left its loop.
LoopLeft == pc \notin {"idle", "loop", "fetch", "sleep"}
\* The positions at which fetch_all_data has returned.
Returned == pc \notin {"idle", "loop", "fetch", "sleep", "return", "raised"}

\* A stopping condition of the claim holds for the page just returned.
PageEndsFetch ==
    responses # <<>> /\ (data_list = <<>> \/ Len(all_data) >= total.n)
\* max_pages is set (not None) and the next page number exceeds it.
NextPageExceedsMaxPages == max_pages.some /\ page > max_pages.v.n

\* C1: fetch_all_data requests pages 1, 2, 3, ... in order; it leaves the loop
\* only when the page just returned is empty, or the accumulated count has
\* reached that page's total, or max_pages is set and the next page number
\* exceeds it; and it requests the next page only when none of these holds.
C1_StopsExactlyWhen ==
    /\ RequestedPages = [i \in 1..Len(RequestedPages) |-> i]
    /\ pc = "return" => (PageEndsFetch \/ NextPageExceedsMaxPages)
    /\ pc = "fetch" => ~(PageEndsFetch \/ NextPageExceedsMaxPages)

\* Every total reported with a non-empty page exceeds the records the remote
\* has served (so it exceeds the records available so far).
TotalsExceedAvailable == min_total > Len(served)

NoRequestAfterEmptyPage ==
    \A i \in 1..(Len(responses) - 1) : responses[i].n > 0

AccumulatedWithinTotal ==
    (responses # <<>> /\ Last(responses).n > 0) => Len(all_data) <= total.n

\* C2 as stated: when the reported totals exceed the available records, the
\* fetch stops exactly at the first empty page, and after each page is
\* accumulated the count does not exceed the total of the most recent page.
C2_StopsAtFirstEmptyPage ==
    TotalsExceedAvailable =>
        /\ pc = "return" => (responses # <<>> /\ Last(responses).n = 0)
        /\ NoRequestAfterEmptyPage
        /\ AccumulatedWithinTotal

\* C2 amended: when the reported totals exceed the available records, the fetch
\* stops exactly at the first empty page, or earlier only because a positive
\* max_pages has been reached; and after each page is accumulated the count
\* does not exceed the total of the most recent page.
C2_StopsAtFirstEmptyPageOrCap ==
    TotalsExceedAvailable =>
        /\ pc = "return" =>
              \/ responses # <<>> /\ Last(responses).n = 0
              \/ /\ max_pages.some
                 /\ max_pages.v.n >= 1
                 /\ Len(responses) = max_pages.v.n
        /\ NoRequestAfterEmptyPage
        /\ AccumulatedWithinTotal

C2_Witness ==
    /\ pc = "return"
    /\ TotalsExceedAvailable
    /\ Len(responses) = 2
    /\ responses[1].n > 0
    /\ responses[2].ok /\ responses[2].n = 0
    /\ Len(all_data) = responses[1].n

\* C3: a page request that fails in transport or in parsing ends the fetch: it
\* is the last request (no retry, no next page), nothing is raised, and the
\* records accumulated, and returned, are exactly those of the pages before it.
C3_FailedPageEndsFetch ==
    \A k \in 1..Len(responses) :
        ~responses[k].ok =>
            /\ k = Len(responses)
            /\ RequestedPages = [i \in 1..k |-> i]
            /\ pc # "raised"
            /\ LoopLeft
            /\ all_data = served
            /\ Returned => raw_data = served

C3_Witness ==
    /\ pc = "done"
    /\ caller = "direct"
    /\ Len(responses) = 2
    /\ responses[1].ok /\ ~responses[2].ok
    /\ raw_data # <<>>

\* C4: what fetch_all_data accumulates and returns is the concatenation, in
\* request order, of the record lists the remote returned, each in its order.
C4_ReturnsConcatenation ==
    /\ all_data = served
    /\ Returned => raw_data = served

C4_Witness ==
    /\ pc = "done"
    /\ caller = "direct"
    /\ Len(responses) = 2
    /\ responses[1].n = 1 /\ responses[2].n = 2
    /\ raw_data[1] # raw_data[2]
    /\ raw_data[2] # raw_data[3]

\* C5: when max_pages is supplied (not None), the number of page requests
\* issued never exceeds max_pages.
C5_RequestsWithinMaxPages ==
    max_pages.some => Len(RequestedPages) <= max_pages.v.n

\* C6: consecutive page requests are separated by exactly one delay
\* suspension, and every delay suspension is followed by another request:
\* once the loop is left the last event is not a delay.
C6_DelaysOnlyBetweenRequests ==
    /\ \A i \in 1..(Len(log) - 1) : log[i].ev # log[i + 1].ev
    /\ log # <<>> => log[1].ev = "request"
    /\ (LoopLeft /\ log # <<>>) => Last(log).ev = "request"

\* The positions of crawl_and_save after parse_data has returned.
Normalized ==
    caller = "crawl"
        /\ pc \in {"filter", "save_csv", "save_xlsx", "sync", "return_path", "done"}

\* crawl_and_save was given a category name.
CategoryGiven == category.some /\ category.v # EmptyStr

Outputs == {csv_file, xlsx_file, uploaded}

\* C7: parse_data yields one row per raw record, in the same order (row i
\* carries the pass-through cells of record i); the table keeps all these rows
\* up to the category filter, loses none when no category is given, and the
\* files written and the table uploaded hold every row of the table.
C7_OneRowPerRecord ==
    Normalized =>
        /\ Len(parsed) = Len(raw_data)
        /\ \A i \in 1..Len(parsed) :
              /\ parsed[i].name = Get(raw_data[i], "prodName", EmptyStr)
              /\ parsed[i].spec = Get(raw_data[i], "specInfo", EmptyStr)
        /\ pc = "filter" => df = parsed
        /\ ~CategoryGiven => df = parsed
        /\ Len(df) <= Len(parsed)
        /\ \A out \in Outputs : out.written => out.rows = df

C7_Witness ==
    /\ pc = "done"
    /\ caller = "crawl"
    /\ category = None
    /\ Len(raw_data) = 2
    /\ raw_data[1] # raw_data[2]
    /\ csv_file.written /\ uploaded.written
    /\ Len(csv_file.rows) = 2
    /\ \E i \in 1..2 : parsed[i].avg = NaN

\* ---- the normalizer on its own (SpecParse)
Parsed == caller = "parse" /\ pc = "done"

\* A decimal literal, stated on the text: digits with at most one point and
\* at least one digit.
IsDecimalText(chars) ==
    /\ \A i \in 1..Len(chars) : chars[i] \in Digits \cup {"."}
    /\ Cardinality({i \in 1..Len(chars) : chars[i] = "."}) <= 1
    /\ \E i \in 1..Len(chars) : chars[i] \in Digits

IsNumericRaw(v) == v.t = "num" \/ (v.t = "str" /\ IsDecimalText(v.s))

\* The values of the decimal literals of the bounded inputs, in hundredths.
LiteralValues ==
    { <<<<"1">>, 100>>, <<<<"1", "1">>, 1100>>, <<<<"1", ".">>, 100>>,
      <<<<".", "1">>, 10>>, <<<<"1", "1", "1">>, 11100>>,
      <<<<"1", "1", ".">>, 1100>>, <<<<"1", ".", "1">>, 110>>,
      <<<<".", "1", "1">>, 11>>, <<<<"1", ".", "2">>, 120>>,
      <<<<"2", ".", "0">>, 200>> }

PriceCells == {<<"lowPrice", "low">>, <<"avgPrice", "avg">>, <<"highPrice", "high">>}

\* C8: each price cell of each row is the number when the raw value is numeric
\* (a JSON number unchanged, a decimal literal by its value) and null when it
\* is not (missing, null, or any other string); the row is there all the same
\* and its other cells are the raw record's.
C8_PriceCoercion ==
    Parsed =>
        /\ Len(parsed) = Len(raw_data)
        /\ \A i \in 1..Len(raw_data) :
              /\ \A c \in PriceCells :
                    LET v == raw_data[i][c[1]]
                        cell == parsed[i][c[2]]
                    IN /\ IsNumericRaw(v) => cell.t = "num"
                       /\ v.t = "num" => cell = v
                       /\ \A lv \in LiteralValues : v = Str(lv[1]) => cell = Num(lv[2])
                       /\ ~IsNumericRaw(v) => cell = NaN
              /\ parsed[i].name = Get(raw_data[i], "prodName", EmptyStr)
              /\ parsed[i].spec = Get(raw_data[i], "specInfo", EmptyStr)
              /\ parsed[i].place = Get(raw_data[i], "place", EmptyStr)
              /\ parsed[i].unit = Get(raw_data[i], "unitInfo", EmptyStr)
              /\ parsed[i].pubDate = Get(raw_data[i], "pubDate", EmptyStr)

\* The end-to-end scenario: lowPrice "1.2", avgPrice "bad", highPrice "2.0".
C8_Witness ==
    /\ Parsed
    /\ Len(raw_data) = 1
    /\ raw_data[1]["prodCat"] = Str(veg)
    /\ raw_data[1]["lowPrice"] = Str(<<"1", ".", "2">>)
    /\ raw_data[1]["avgPrice"] = Str(<<"b", "a", "d">>)
    /\ raw_data[1]["highPrice"] = Str(<<"2", ".", "0">>)
    /\ parsed[1].low = Num(120)
    /\ parsed[1].avg = NaN
    /\ parsed[1].high = Num(200)

\* C9 as stated: the primary category is prodCat whenever that key is present,
\* prodPcat when prodCat is absent and prodPcat present, "" when both are absent.
C9_CategoryByKeyPresence ==
    Parsed =>
        \A i \in 1..Len(raw_data) :
            LET cat == raw_data[i]["prodCat"]
                pcat == raw_data[i]["prodPcat"]
            IN /\ cat # Absent => parsed[i].cat1 = cat
               /\ (cat = Absent /\ pcat # Absent) => parsed[i].cat1 = pcat
               /\ (cat = Absent /\ pcat = Absent) => parsed[i].cat1 = EmptyStr

\* A value that is present, not null and not empty.
NonEmptyValue(v) == v \notin {Absent, Null, EmptyStr, Num(0)}

\* C9 amended: the primary category is prodCat whenever that value is present
\* and non-empty (not null, not ""); otherwise it is the value of prodPcat if
\* that key is present, and "" if it is absent.
C9_CategoryByNonEmptyValue ==
    Parsed =>
        \A i \in 1..Len(raw_data) :
            LET cat == raw_data[i]["prodCat"]
                pcat == raw_data[i]["prodPcat"]
            IN /\ NonEmptyValue(cat) => parsed[i].cat1 = cat
               /\ (~NonEmptyValue(cat) /\ pcat # Absent) => parsed[i].cat1 = pcat
               /\ (~NonEmptyValue(cat) /\ pcat = Absent) => parsed[i].cat1 = EmptyStr

C9_Witness ==
    /\ Parsed
    /\ Len(raw_data) = 1
    /\ raw_data[1]["prodCat"] = EmptyStr
    /\ raw_data[1]["prodPcat"] = Str(veg)
    /\ parsed[1].cat1 = Str(veg)

\* ---- the category filter (Spec)
\* The rows of the normalized table whose primary category is the requested one.
MatchingRows == {i \in 1..Len(parsed) : parsed[i].cat1 = category.v}
NthMatching(j) ==
    CHOOSE i \in MatchingRows : Cardinality({k \in MatchingRows : k <= i}) = j

\* C10: given a category, every file written and the table uploaded hold
\* exactly the normalized rows whose primary category equals it, in their
\* original order, and no more rows than the normalized table.
C10_ExactCategoryFilter ==
    (Normalized /\ CategoryGiven) =>
        \A out \in Outputs :
            out.written =>
                /\ Len(out.rows) = Cardinality(MatchingRows)
                /\ \A j \in 1..Len(out.rows) : out.rows[j] = parsed[NthMatching(j)]
                /\ Len(out.rows) <= Len(parsed)

C10_Witness ==
    /\ pc = "done"
    /\ caller = "crawl"
    /\ category = Some(Str(veg))
    /\ csv_file.written /\ xlsx_file.written /\ uploaded.written
    /\ Len(parsed) = 3
    /\ Len(uploaded.rows) = 2
    /\ raw_data[1]["prodCat"] = Absent
    /\ raw_data[2]["prodCat"] = Str(Veg)

\* =========================================================================
\* Claims about the token manager (specification SpecToken).
\* =========================================================================
RequestNames ==
    {"POST app_access_token", "POST oidc/access_token",
     "POST oidc/refresh_access_token", "POST tenant_access_token"}

\* The remote requests the last operation sent, in order.
Requests == SelectSeq(trace, LAMBDA e : e \in RequestNames)
Sends(what) == \E i \in 1..Len(trace) : trace[i] = what
Calls(what) == \E i \in 1..Len(trace) : trace[i] = what

\* Seconds between the call of the last operation and the expiry the
\* instance held then.
Remaining == pre.self.token_expires_at - now

UserTokenCached == TruthyToken(pre.self.user_access_token)
TenantTokenCached == TruthyToken(pre.self.tenant_access_token)

\* C11: in both modes a cached token with expiry - now = 300 is not returned
\* unless a renewal request was sent first (the service getter always sends
\* one), and a cached token with expiry - now = 301 is returned as it is,
\* with no request.
C11_ExpiryBoundary ==
    /\ (op = "get_user_access_token" /\ UserTokenCached) =>
          /\ Remaining = Margin =>
                (TruthyToken(ret.tok) => Sends("POST oidc/refresh_access_token"))
          /\ Remaining = Margin + 1 =>
                (ret.tok = pre.self.user_access_token /\ Requests = <<>>)
    /\ (op = "get_tenant_access_token" /\ TenantTokenCached) =>
          /\ Remaining = Margin => Sends("POST tenant_access_token")
          /\ Remaining = Margin + 1 =>
                (ret.tok = pre.self.tenant_access_token /\ Requests = <<>>)

\* A delegated token with exactly 300 seconds left was renewed and the
\* getter returned a token.
C11_Witness ==
    /\ op = "get_user_access_token"
    /\ UserTokenCached
    /\ Remaining = Margin
    /\ TruthyToken(ret.tok)
    /\ Sends("POST oidc/refresh_access_token")

\* The last operation was one of the two getters and returned a token.
GetterReturnedToken ==
    /\ op \in {"get_user_access_token", "get_tenant_access_token"}
    /\ TruthyToken(ret.tok)

\* C12: every token a getter returns is usable by the expiry the remote
\* reported for that very token: now < E - 300.
C12_ReturnedTokenUsable ==
    GetterReturnedToken => now < ret.tok.expiry - Margin

\* The verdict the getters reach on a cached token: lines 245 and 261.
Usable(s, field) ==
    TruthyToken(s[field]) /\ now < s.token_expires_at - Margin

\* C13: an operation on the service token leaves the expiry the instance
\* holds for a cached delegated token, and the verdict on that token, as they
\* were; and an operation on the delegated token does the same for a cached
\* service token.
C13_IndependentLifecycles ==
    /\ (op \in {"get_tenant_access_token", "enable_simple_mode"} /\ UserTokenCached) =>
          /\ self.token_expires_at = pre.self.token_expires_at
          /\ Usable(self, "user_access_token") = Usable(pre.self, "user_access_token")
    /\ (op \in {"exchange_code_for_token", "refresh_user_token"} /\ TenantTokenCached) =>
          /\ self.token_expires_at = pre.self.token_expires_at
          /\ Usable(self, "tenant_access_token") = Usable(pre.self, "tenant_access_token")

\* The service token cached at the call was within its margin.
TenantTokenValid == TenantTokenCached /\ Remaining > Margin

\* C14: get_tenant_access_token sends nothing when the cached service token
\* is within its margin; otherwise it sends exactly one credential request,
\* and then either returns the token granted now, cached with the expiry
\* now + reported lifetime, or returns None with the cached token and expiry
\* as they were.
C14_ServiceTokenFetch ==
    op = "get_tenant_access_token" =>
        /\ TenantTokenValid =>
              /\ Requests = <<>>
              /\ ret.tok = pre.self.tenant_access_token
        /\ ~TenantTokenValid =>
              /\ Requests = <<"POST tenant_access_token">>
              /\ TruthyToken(ret.tok) =>
                    /\ ret.tok.kind = "tenant"
                    /\ ret.tok.at = now
                    /\ self.tenant_access_token = ret.tok
                    /\ self.token_expires_at = ret.tok.expiry
              /\ ~TruthyToken(ret.tok) =>
                    /\ self.tenant_access_token = pre.self.tenant_access_token
                    /\ self.token_expires_at = pre.self.token_expires_at

\* The request for a new service token failed while a stale one was cached.
C14_Witness ==
    /\ op = "get_tenant_access_token"
    /\ TenantTokenCached
    /\ ~TenantTokenValid
    /\ ~TruthyToken(ret.tok)
    /\ self.tenant_access_token = pre.self.tenant_access_token

\* The answers of the remote are in the trace, each after its request.
SomeRequestFailed == \E i \in 1..Len(trace) : trace[i] \in {"rejected", "error"}
AppStepFailed ==
    /\ Len(trace) >= 2
    /\ trace[1] = "POST app_access_token"
    /\ trace[2] \in {"rejected", "error"}

\* C15: when either request of exchange_code_for_token is rejected or fails
\* in transport the call returns False, no code exchange is sent after a
\* failed application-credential request, and the instance's tokens and
\* expiry and the configuration file are as before the call.
C15_FailedExchangeChangesNothing ==
    (op = "exchange_code_for_token" /\ SomeRequestFailed) =>
        /\ ~ret.b
        /\ AppStepFailed => Requests = <<"POST app_access_token">>
        /\ self = pre.self
        /\ config = pre.config

\* The code exchange was rejected while tokens from an earlier authorization
\* were cached and persisted.
C15_Witness ==
    /\ op = "exchange_code_for_token"
    /\ Requests = <<"POST app_access_token", "POST oidc/access_token">>
    /\ SomeRequestFailed
    /\ TruthyToken(self.user_access_token)
    /\ TruthyToken(config.user_access_token)

\* The last operation renewed the delegated token.
UserRenewed ==
    \/ op \in {"exchange_code_for_token", "refresh_user_token"} /\ ret.b
    \/ /\ op \in {"get_user_access_token", "_get_headers"}
       /\ Sends("POST oidc/refresh_access_token")
       /\ TruthyToken(ret.tok)
\* The last operation obtained a new service token.
TenantRenewed ==
    /\ op = "get_tenant_access_token"
    /\ Sends("POST tenant_access_token")
    /\ TruthyToken(ret.tok)

\* The service token the file holds: no code writes one (lines 90-93 and
\* 316-317 set the only keys the client ever writes).
PersistedTenantToken == NoToken

UserMirrored ==
    /\ config.user_access_token = self.user_access_token
    /\ config.refresh_token = self.refresh_token
    /\ config.token_expires_at = self.token_expires_at

C17_RefreshWithoutRefreshToken ==
    (op = "refresh_user_token" /\ ~TruthyToken(pre.self.refresh_token)) =>
        /\ ~ret.b
        /\ trace = <<>>
        /\ self = pre.self
        /\ config = pre.config

\* A delegated token was granted without a refresh token and a refresh was
\* asked for.
C17_Witness ==
    /\ op = "refresh_user_token"
    /\ ~TruthyToken(pre.self.refresh_token)
    /\ TruthyToken(pre.self.user_access_token)
    /\ ~ret.b

\* The refresh request of the last operation was answered with code 0.
RefreshSucceeded ==
    \E i \in 1..(Len(trace) - 1) :
        trace[i] = "POST oidc/refresh_access_token" /\ trace[i + 1] = "ok"

\* The delegated token cached at the call was within its margin.
UserTokenValid == UserTokenCached /\ Remaining > Margin

\* What get_user_access_token does once it has decided to refresh.
RefreshedOrNone ==
    /\ Calls("refresh_user_token")
    /\ IF RefreshSucceeded
       THEN /\ ret.tok = self.user_access_token
            /\ ret.tok.kind = "user"
            /\ ret.tok.at = now
       ELSE ret.tok = NoToken

\* C18 as stated: the cached delegated token is returned with no remote call
\* when it is within the margin; in every other case a refresh is attempted,
\* and the token it grants is returned, or None when it fails.
C18_CachedOrRefreshed ==
    op = "get_user_access_token" =>
        IF UserTokenValid
        THEN ret.tok = pre.self.user_access_token /\ trace = <<>>
        ELSE RefreshedOrNone

\* C18 amended: with no delegated token cached the getter returns None at
\* once, attempting no refresh; with one cached it behaves as stated.
C18_NoneOrCachedOrRefreshed ==
    op = "get_user_access_token" =>
        /\ ~UserTokenCached =>
              (ret.tok = NoToken /\ trace = <<>> /\ self = pre.self)
        /\ UserTokenValid =>
              (ret.tok = pre.self.user_access_token /\ trace = <<>>)
        /\ (UserTokenCached /\ ~UserTokenValid) => RefreshedOrNone

\* A delegated token past its margin was refreshed and the new one returned.
C18_Witness ==
    /\ op = "get_user_access_token"
    /\ UserTokenCached
    /\ ~UserTokenValid
    /\ RefreshSucceeded
    /\ TruthyToken(ret.tok)
    /\ ret.tok # pre.self.user_access_token

\* The kind of token _get_headers asked for: line 288.
BearerIsServiceToken ==
    /\ Calls("get_tenant_access_token")
    /\ TruthyToken(ret.tok) => ret.tok.kind = "tenant"
BearerIsDelegatedToken ==
    /\ Calls("get_user_access_token")
    /\ TruthyToken(ret.tok) => ret.tok.kind = "user"

\* The half of C19 about enable_simple_mode.
SimpleModeSelectsServiceToken ==
    (op = "_get_headers" /\ mode_op = "simple") => BearerIsServiceToken

\* C19: the bearer token of a remote call is the service token when the last
\* mode-selecting operation that returned True was enable_simple_mode, and
\* the delegated token when it was exchange_code_for_token, whether or not
\* the client was restarted in between.
C19_LastSelectionDecidesMode ==
    op = "_get_headers" =>
        /\ mode_op = "simple" => BearerIsServiceToken
        /\ mode_op = "auth" => BearerIsDelegatedToken

\* C20: between operations the mode flag of the instance equals the mode
\* flag in the configuration file (a file without the key reads as False).
C20_ModeFlagMatchesFile ==
    self.use_tenant_token = config.use_tenant_token

\* =========================================================================
\* Claims about the upload pipeline
\* =========================================================================

\* C22: get_unique_filename and get_unique_sheet_title return the base name
\* when it is not among the existing names, and otherwise base_(n) for the
\* smallest n >= 1 whose name is not among them; with R and R_(1) existing,
\* R resolves to R_(2).
C22_SmallestFreeSuffix ==
    naming # "none" =>
        /\ base_name \notin existing_names => unique_name = base_name
        /\ base_name \in existing_names =>
               \E n \in 1..(Cardinality(existing_names) + 1) :
                   /\ unique_name = Suffixed(base_name, n)
                   /\ unique_name \notin existing_names
                   /\ \A k \in 1..(n - 1) : Suffixed(base_name, k) \in existing_names
        /\ (base_name = <<"R">> /\ existing_names = {<<"R">>, <<"R", "_", "(", "1", ")">>})
               => unique_name = <<"R", "_", "(", "2", ")">>

\* Ten suffixed names are taken and the eleventh is returned.
C22_Witness ==
    /\ naming = "get_unique_filename"
    /\ base_name = <<"R">>
    /\ Cardinality(existing_names) = 11
    /\ unique_name = <<"R", "_", "(", "1", "1", ")">>

\* The number of the column a spreadsheet names with these letters: the names
\* run A..Z, AA..AZ, BA..ZZ, AAA.., so a name is a numeral with the digits
\* A = 1 .. Z = 26.
LetterIndex(ch) == CHOOSE i \in 1..26 : Alphabet[i] = ch
RECURSIVE ColumnNumber(_)
ColumnNumber(s) ==
    IF s = <<>> THEN 0
    ELSE 26 * ColumnNumber(SubSeq(s, 1, Len(s) - 1)) + LetterIndex(s[Len(s)])

\* C28: col_to_letter is the bijective base-26 numeral over A..Z: it maps
\* 1 to A, 26 to Z, 27 to AA, 52 to AZ, 53 to BA, and for every positive
\* count the letters it returns are the spreadsheet name of that column.
C28_BijectiveBase26 ==
    end_col # <<>> =>
        /\ \A i \in 1..Len(end_col) : \E j \in 1..26 : end_col[i] = Alphabet[j]
        /\ ColumnNumber(end_col) = cols
        /\ cols = 1 => end_col = <<"A">>
        /\ cols = 26 => end_col = <<"Z">>
        /\ cols = 27 => end_col = <<"A", "A">>
        /\ cols = 52 => end_col = <<"A", "Z">>
        /\ cols = 53 => end_col = <<"B", "A">>

\* The first column with three letters has been converted.
C28_Witness == cols = 703 /\ end_col = <<"A", "A", "A">>

\* The requests of the call in progress (or of the last call), by endpoint.
SentTo(api) == {i \in 1..Len(sent) : sent[i].api = api}

\* C21: no request to the spreadsheet API (list files, create spreadsheet,
\* query sheets, write values) is sent when the token manager yields no
\* usable token for the active mode.
C21_NoRequestWithoutToken ==
    \A i \in 1..Len(sent) : TruthyToken(sent[i].bearer)

\* C23: with auto_rename, the title of the create request is not the name of
\* an item the folder holds when the request arrives, whatever the folder
\* holds and whatever the listing answered.
C23_CreateTitleUnused ==
    call.auto_rename =>
        \A i \in SentTo("create") : sent[i].title \notin sent[i].folder

\* C24: when the create request is rejected or fails, upload_dataframe
\* returns None and sends no sheet query and no write after it.
C24_FailedCreateEndsUpload ==
    \A i \in SentTo("create") :
        sent[i].status # "ok" =>
            /\ i = Len(sent)
            /\ stage = "done"
            /\ returned = ReturnsToken(0)

\* A create request that carried a usable token was rejected.
C24_Witness ==
    /\ call.fn = "upload_dataframe"
    /\ Len(sent) = 2
    /\ sent[2].api = "create"
    /\ sent[2].status = "rejected"
    /\ TruthyToken(sent[2].bearer)
    /\ returned = ReturnsToken(0)

\* The start row each start cell tried names (1 for one that names none).
NamedRow(cell) ==
    CASE cell = <<"A", "1">> -> 1
      [] cell = <<"b", "3">> -> 3
      [] cell = <<"A", "1", "2">> -> 12
      [] OTHER -> 1

\* The least c with c * B >= N.
CeilDiv(N, B) == CHOOSE c \in 0..N : c * B >= N /\ \A d \in 0..(c - 1) : d * B < N

\* The sheet rows of the ranges of the write requests, in the order sent.
RangesSent == [i \in 1..Len(sent) |-> <<sent[i].first, sent[i].last>>]

\* C25: for N >= 1 grid rows, batch size B and start row s, a write_data
\* call in which no chunk fails issues exactly ceil(N / B) chunk writes;
\* chunk i (from 0) targets the rows s + i*B .. s + min((i+1)*B, N) - 1 and
\* carries exactly those grid rows; the ranges are contiguous, do not
\* overlap, hold at most B rows each and cover s .. s + N - 1.  With
\* N = 10000, B = 4000 and s = 1 they are 1..4000, 4001..8000, 8001..10000.
C25_ChunkRanges ==
    (call.fn = "write_data" /\ returned = ReturnsBool(TRUE) /\ call.rows >= 1) =>
        LET N == call.rows
            B == call.batch_size
            s == NamedRow(call.start_cell)
        IN  /\ Len(sent) = CeilDiv(N, B)
            /\ \A j \in 1..Len(sent) :
                   LET i == j - 1
                       upper == IF (i + 1) * B <= N THEN (i + 1) * B ELSE N
                   IN  /\ sent[j].api = "write"
                       /\ sent[j].first = s + i * B
                       /\ sent[j].last = s + upper - 1
                       /\ sent[j].from = i * B
                       /\ sent[j].to = upper
                       /\ sent[j].last - sent[j].first + 1 <= B
                       /\ sent[j].last >= sent[j].first
                       /\ j > 1 => sent[j].first = sent[j - 1].last + 1
            /\ sent[1].first = s
            /\ sent[Len(sent)].last = s + N - 1
            /\ (N = 10000 /\ B = 4000 /\ s = 1) =>
                   RangesSent = << <<1, 4000>>, <<4001, 8000>>, <<8001, 10000>> >>

\* The grid of 10,000 rows has been written in three chunks from row 1.
C25_Witness ==
    /\ call.fn = "write_data"
    /\ returned = ReturnsBool(TRUE)
    /\ call.rows = 10000
    /\ call.batch_size = 4000
    /\ call.start_cell = <<"A", "1">>
    /\ Len(sent) = 3

\* The write requests of the call, in the order sent.
Writes == SelectSeq(sent, LAMBDA q : q.api = "write")

\* C26: chunk writes are issued in increasing row order, each after the one
\* before it was accepted; after a rejected or failed chunk no chunk is
\* written and nothing is deleted or rolled back, and upload_dataframe
\* returns None.
C26_InOrderStopAtFirstFailure ==
    /\ \A j \in 1..Len(sent) :
           sent[j].api \in {"list", "create", "sheets", "write"}
    /\ \A j \in 2..Len(Writes) :
           /\ Writes[j - 1].status = "ok"
           /\ Writes[j].first > Writes[j - 1].last
    /\ \A j \in SentTo("write") :
           sent[j].status # "ok" =>
               /\ j = Len(sent)
               /\ stage = "done"
               /\ returned = ReturnsToken(0)
               /\ remote.sheets[sent[j].target]
                      = SelectSeq(Writes, LAMBDA q : q.status = "ok")

\* The third chunk of the large table failed after two were accepted.
C26_Witness ==
    /\ call.fn = "upload_dataframe"
    /\ Len(Writes) = 3
    /\ Writes[3].status = "error"
    /\ returned = ReturnsToken(0)
    /\ Len(remote.sheets[spreadsheet_token]) = 2

\* The writes a sheet received that put a value in sheet row r, each putting
\* its values in consecutive rows from the first row of its range, and the
\* grid row such a write put there.
Covering(sheet, r) ==
    {n \in 1..Len(sheet) :
        sheet[n].first <= r /\ r < sheet[n].first + (sheet[n].to - sheet[n].from)}
RowPut(sheet, n, r) == sheet[n].from + (r - sheet[n].first)

\* C27: when upload_dataframe returns a spreadsheet token, the sheet holds
\* the header in row 1 and table row k in row k + 1 for every k in 1..N:
\* no gap, and no row written at two positions.
C27_RowsInPlace ==
    (call.fn = "upload_dataframe" /\ returned.done /\ returned.tok # 0) =>
        LET sheet == remote.sheets[returned.tok] IN
        /\ \A k \in 0..call.rows :
               LET cov == Covering(sheet, k + 1) IN
               /\ Cardinality(cov) = 1
               /\ \A n \in cov : RowPut(sheet, n, k + 1) = k
        /\ Covering(sheet, call.rows + 2) = {}
        /\ Covering(sheet, 0) = {}

\* The large table has been uploaded in three chunks.
C27_Witness ==
    /\ call.fn = "upload_dataframe"
    /\ returned.tok # 0
    /\ call.rows > DefaultBatch
    /\ Len(remote.sheets[returned.tok]) = 3

\* C29: an upload_dataframe call sends at most one create request, and each
\* of its sheet queries and chunk writes targets the spreadsheet token that
\* the create request of the same call returned, which is no token of an
\* earlier upload.
C29_OwnSpreadsheetOnly ==
    call.fn = "upload_dataframe" =>
        /\ Cardinality(SentTo("create")) <= 1
        /\ \A j \in SentTo("sheets") \cup SentTo("write") :
               \E i \in SentTo("create") :
                   /\ i < j
                   /\ sent[i].status = "ok"
                   /\ sent[j].target = sent[i].target
                   /\ sent[j].target = Len(remote.sheets)

\* A second upload writes to the second spreadsheet.
C29_Witness ==
    /\ call.fn = "upload_dataframe"
    /\ Len(remote.sheets) = 2
    /\ \E j \in SentTo("write") : sent[j].target = 2 /\ sent[j].status = "ok"
    /\ returned.tok = 2

\* The positions of an event in what start_auth_server did.
At(e) == {i \in 1..Len(events) : events[i] = e}

\* C30: start_auth_server opens the browser only after the port check and
\* the listener's bind have both succeeded; when port 9000 is occupied it
\* reports the conflict and returns False without opening the browser.
C30_BrowserAfterPortCheck ==
    /\ \A i \in At("open_browser") :
           \E j \in At("port_free"), k \in At("listening") : j < k /\ k < i
    /\ (auth_pc = "done" /\ port = "other") =>
           /\ auth_ret = "False"
           /\ At("open_browser") = {}
           /\ events # <<>>
           /\ Last(events) \in {"report_port_in_use", "report_start_failed"}
           /\ At("port_free") = {} => Last(events) = "report_port_in_use"

\* The port was held by another program when the function was called.
C30_Witness ==
    /\ auth_pc = "done"
    /\ port = "other"
    /\ events = <<"report_port_in_use">>
    /\ auth_ret = "False"

\* The function is still inside its wait for the redirect.
Waiting == auth_pc \in {"wait", "stalled"}
\* The listener has answered a request.
Answered == At("page_success") \cup At("page_failure") \cup At("page_501") # {}

\* C31: the redirect listener stops waiting after the first request or once
\* five minutes (and the poll in progress) have elapsed; it is closed on
\* every exit path (code received, error redirect, timeout, user
\* interrupt); and exchange_code_for_token is invoked if and only if a
\* request carrying an authorization code was captured.
C31_ListenerStopsAndCloses ==
    /\ Waiting => ~Answered /\ PollSeconds * polls <= AuthTimeout + PollSeconds
    /\ (auth_pc = "done" /\ At("listening") # {}) =>
           port = "free" /\ At("closed") # {}
    /\ auth_pc = "done" => (At("exchange") # {} <=> auth_code = "code")

\* parse_data has been applied to the records of its own result.
ParsedAgain == caller = "parse" /\ pc = "again"

\* C32: normalization is idempotent on its value mapping: normalizing the
\* raw records of an already normalized table yields the same ten field
\* values for every row.
C32_Idempotent ==
    ParsedAgain =>
        /\ Len(df) = Len(parsed)
        /\ \A i \in 1..Len(parsed) : df[i] = parsed[i]

\* One of the four methods was called with no spreadsheet token and is over.
CalledWithoutToken ==
    /\ call.fn \in TokenMethods \cup {"write_data"}
    /\ call.token = 0
    /\ returned.done

\* C33: get_sheets, get_spreadsheet_info, create_sheet and write_data, called
\* with no spreadsheet token, return their failure value (empty list, None,
\* None, False) without raising and without sending a remote request.
C33_NoTokenFailureValue ==
    CalledWithoutToken =>
        /\ ~returned.raised
        /\ returned = ReturnsBool(FALSE)
        /\ sent = <<>>

\* The column each start cell tried names (A for one that names none).
NamedColumn(cell) ==
    CASE cell = <<"A", "1">> -> <<"A">>
      [] cell = <<"b", "3">> -> <<"B">>
      [] cell = <<"A", "1", "2">> -> <<"A">>
      [] OTHER -> <<"A">>

\* C34: write_data places the grid with its top-left cell at start_cell: the
\* range of the first chunk begins at the column and the row named by
\* start_cell, and every chunk range spans the grid's column count starting
\* from that column.
C34_TopLeftAtStartCell ==
    call.fn = "write_data" =>
        \A j \in SentTo("write") :
            LET col == NamedColumn(call.start_cell)
            IN  /\ sent[j].start_col = col
                /\ ColumnNumber(sent[j].end_col) =
                       ColumnNumber(col) + call.width - 1
                /\ j = 1 => sent[j].first = NamedRow(call.start_cell)

\* The operations that may renew the user token and rewrite the file through
\* _save_config.
Renewals == {"exchange_code_for_token", "refresh_user_token",
             "get_user_access_token", "_get_headers"}
\* The keys of the file that no method of the client sets.
ForeignKeys == {"app_id", "app_secret", "folder_token", "instructions"}

\* C35: rewriting the persisted configuration (_save_config after a token
\* renewal, or enable_simple_mode) changes only the token fields, expiry,
\* mode flag and update timestamp it is responsible for: app_id, app_secret,
\* folder_token and every other existing key keep their values, a persisted
\* mode flag survives a token renewal, and enable_simple_mode leaves the
\* persisted tokens and expiry alone.
C35_RewriteKeepsOtherKeys ==
    /\ \A k \in ForeignKeys : config[k] = pre.config[k]
    /\ op \in Renewals => config.use_tenant_token = pre.config.use_tenant_token
    /\ op = "enable_simple_mode" =>
           /\ config.user_access_token = pre.config.user_access_token
           /\ config.refresh_token = pre.config.refresh_token
           /\ config.token_expires_at = pre.config.token_expires_at

\* A code was exchanged after simple mode had been persisted: the file was
\* rewritten with the new token, and the flag and the other keys are there.
C35_Witness ==
    /\ op = "exchange_code_for_token"
    /\ ret.b
    /\ pre.config.use_tenant_token
    /\ config.use_tenant_token
    /\ config.user_access_token # pre.config.user_access_token
    /\ \A k \in ForeignKeys : config[k] = k

\* The path crawl_and_save holds once the local files of the format asked
\* for are written: the CSV path, else the Excel path, else None.
LocalPath ==
    IF output_format \in {"csv", "both"} THEN "csv"
    ELSE IF output_format = "xlsx" THEN "xlsx" ELSE "None"

\* The sync ran and did not end with a spreadsheet.
SyncFailed ==
    uploaded.result \in {"module_missing", "no_client", "none", "exception"}

\* C36: in crawl_and_save with sync enabled, the sync runs only after the
\* local files of the format asked for have been written with the table;
\* and a failed upload (no client, upload returning None, an exception
\* inside the sync) does not raise to the caller and leaves the file path
\* returned as the local files set it.
C36_SyncAfterFilesAndHarmless ==
    /\ uploaded.result # "not_called" =>
           /\ sync_to_feishu
           /\ output_format \in {"csv", "both"} => csv_file = Written(df)
           /\ output_format \in {"xlsx", "both"} => xlsx_file = Written(df)
           /\ uploaded.written => uploaded.rows = df
    /\ SyncFailed =>
           /\ pc \in {"return_path", "done"}
           /\ filepath = LocalPath

\* Both files were written, the upload raised, and crawl_and_save returned
\* the CSV path.
C36_Witness ==
    /\ pc = "done"
    /\ caller = "crawl"
    /\ output_format = "both"
    /\ csv_file.written /\ xlsx_file.written
    /\ uploaded.result = "exception"
    /\ df # <<>>
    /\ filepath = "csv"

====
